---- MODULE Spec2Model ----
(***************************************************************************)
(* A model of the zinnia note core: the filesystem layer                   *)
(* (crates/core/src/filesystem.rs), the notes API and its SQLite index     *)
(* (crates/core/src/notes.rs), the watcher (crates/core/src/watcher.rs)    *)
(* and the callers that share the API behind one mutex                     *)
(* (crates/frontend/src-tauri/src/lib.rs).                                 *)
(*                                                                         *)
(* A string is a sequence of one-character strings, so that replacen,      *)
(* replace, contains, to_lowercase and SQL LIKE are computed on            *)
(* characters as the code computes them.                                   *)
(***************************************************************************)
EXTENDS Integers, Sequences, FiniteSets, TLC

VARIABLES
    files,      \* on disk: note directory -> [content, mtime] of its _index.md
    dirs,       \* on disk: the directories that exist under the root ("" is the root)
    notes,      \* table notes: path -> row
    fts,        \* table notes_fts: rowid -> [path, content]
    flag,       \* NotesApi.operation_in_progress
    clock,      \* SystemTime::now(), in seconds
    steps,      \* number of operations run so far (bounds the exploration)
    last,       \* the last operation: its name, arguments and result
    pre,        \* the store before the last operation
    snap,       \* the last archive_note: the store before it, its arguments and result
    mutex,      \* owner of the Mutex<NotesApi>: "free", "caller" or "watcher"
    cpc,        \* caller thread: position in the tauri command
    cop,        \* caller thread: the command being run, with what it read so far
    wpc,        \* watcher thread: position in the event callback
    wev,        \* watcher thread: the event being handled
    events,     \* notify events produced and not yet delivered
    emitted,    \* the callbacks invoked so far: the frecency callback and on_change
    wlog,       \* what the watcher did with the last event: skipped, or sync_note and its result
    ext,        \* number of changes made on disk by other programs
    failed,     \* whether a call of the API has returned an error
    schema      \* .notes.db: user_version, the tables and indexes, the added columns

vars == <<files, dirs, notes, fts, flag, clock, steps, last, pre, snap,
          mutex, cpc, cop, wpc, wev, events, emitted, wlog, ext, failed, schema>>

storeVars == <<files, dirs, notes, fts>>
threadVars == <<mutex, cpc, cop, wpc, wev, events, emitted, wlog, ext, failed>>

----------------------------------------------------------------------------
(* Bounds of the exploration *)

MaxOps == 2
MaxArchiveOps == 3
MaxCalls == 2
MaxExternal == 1

----------------------------------------------------------------------------
(* Strings *)

NULL == <<"NULL">>          \* SQL NULL / Option::None for a TEXT value
NullInt == 0 - 1            \* SQL NULL for an INTEGER value (timestamps are >= 1)

SLASH == <<"/">>
ARCHIVE == <<"_", "a", "r", "c", "h", "i", "v", "e">>
BACKUPS == <<"_", "b", "a", "c", "k", "u", "p", "s">>

\* F applied to the value of x, which is computed once
Bind(x, F(_)) == CHOOSE y \in {F(v) : v \in {x}} : TRUE

Min(S) == CHOOSE x \in S : \A y \in S : x <= y
Max(S) == CHOOSE x \in S : \A y \in S : y <= x

StartsWith(s, prefix) ==
    Len(prefix) <= Len(s) /\ SubSeq(s, 1, Len(prefix)) = prefix

\* str::find: the first index at which sub occurs in s, 0 when it does not
IndexOf(s, sub) ==
    LET I == {i \in 1..(Len(s) - Len(sub) + 1) : SubSeq(s, i, i + Len(sub) - 1) = sub}
    IN IF I = {} THEN 0 ELSE Min(I)

Contains(s, sub) == IndexOf(s, sub) # 0

\* str::replacen(from, to, 1)
replacen1(s, from, to) ==
    LET i == IndexOf(s, from)
    IN IF i = 0 THEN s
       ELSE SubSeq(s, 1, i - 1) \o to \o SubSeq(s, i + Len(from), Len(s))

\* str::replace(from, to): every non-overlapping occurrence, left to right
RECURSIVE replace(_, _, _)
replace(s, from, to) ==
    LET i == IndexOf(s, from)
    IN IF i = 0 \/ from = <<>> THEN s
       ELSE SubSeq(s, 1, i - 1) \o to
            \o replace(SubSeq(s, i + Len(from), Len(s)), from, to)

LowerChar(c) ==
    CASE c = "A" -> "a"
      [] c = "B" -> "b"
      [] c = "C" -> "c"
      [] c = "P" -> "p"
      [] c = "Q" -> "q"
      [] OTHER -> c

to_lowercase(s) == [i \in 1..Len(s) |-> LowerChar(s[i])]

\* SQLite's LIKE without an ESCAPE clause: % matches any run of characters,
\* _ any one character, every other character itself without regard to
\* ASCII case
RECURSIVE Like(_, _)
Like(pat, s) ==
    IF pat = <<>> THEN s = <<>>
    ELSE IF pat[1] = "%"
         THEN \E k \in 0..Len(s) : Like(Tail(pat), SubSeq(s, k + 1, Len(s)))
    ELSE IF s = <<>> THEN FALSE
    ELSE IF pat[1] = "_" THEN Like(Tail(pat), Tail(s))
    ELSE LowerChar(pat[1]) = LowerChar(s[1]) /\ Like(Tail(pat), Tail(s))

----------------------------------------------------------------------------
(* Paths *)

RECURSIVE StripTrailingSlash(_)
StripTrailingSlash(s) ==
    IF s # <<>> /\ s[Len(s)] = "/"
    THEN StripTrailingSlash(SubSeq(s, 1, Len(s) - 1))
    ELSE s

\* std::path::Path::components of a relative path: the non-empty segments
RECURSIVE Components(_)
Components(s) ==
    IF s = <<>> THEN <<>>
    ELSE LET I == {i \in 1..Len(s) : s[i] = "/"}
             k == IF I = {} THEN Len(s) + 1 ELSE Min(I)
             head == SubSeq(s, 1, k - 1)
             rest == Components(SubSeq(s, k + 1, Len(s)))
         IN IF head = <<>> THEN rest ELSE <<head>> \o rest

RECURSIVE JoinPath(_)
JoinPath(cs) ==
    IF cs = <<>> THEN <<>>
    ELSE IF Len(cs) = 1 THEN cs[1]
    ELSE cs[1] \o SLASH \o JoinPath(Tail(cs))

get_parent_path(path) ==
    IF path = <<>> THEN NULL
    ELSE LET cs == Components(path)
             par == IF Len(cs) <= 1 THEN <<>>
                    ELSE JoinPath(SubSeq(cs, 1, Len(cs) - 1))
         IN IF par = <<>> THEN NULL ELSE par

\* path.split('/').next_back().unwrap()
LastSegment(path) ==
    LET I == {i \in 1..Len(path) : path[i] = "/"}
    IN IF I = {} THEN path ELSE SubSeq(path, Max(I) + 1, Len(path))

\* DefaultHasher (SipHash-1-3, zero keys) over the bytes of the content and
\* the 0xff that str::hash appends, rendered by format!("{:x}")
compute_hash(content) ==
    CASE content = ""  -> "30406ea523c53def"
      [] content = "v" -> "ad9eec7816ed15dd"
      [] content = "w" -> "81f933511522d40"
      [] OTHER -> "e037876b880b8ed9"

----------------------------------------------------------------------------
(* Filesystem layer: NoteFilesystem.  A store s is a record                *)
(* [files, dirs, notes, fts]; the filesystem operations read and change    *)
(* s.files and s.dirs.  The filesystem is case-sensitive.                  *)

Put(f, k, v) == [x \in DOMAIN f \cup {k} |-> IF x = k THEN v ELSE f[x]]
Restrict(f, D) == [x \in D |-> f[x]]

\* root_path.join(path): the directory of a note, relative to the root
FsKey(path) == JoinPath(Components(path))

DirPrefixes(key) ==
    LET cs == Components(key)
    IN {JoinPath(SubSeq(cs, 1, i)) : i \in 0..Len(cs)}

\* k is the directory key, or lies below it
Under(k, key) == key = <<>> \/ k = key \/ StartsWith(k, key \o SLASH)

\* note_to_fs_path(path).exists()
fs_exists(s, path) == FsKey(path) \in DOMAIN s.files

\* NoteFilesystem::read_note, where fs_exists(s, path)
read_note(s, path) == s.files[FsKey(path)].content

\* NoteFilesystem::write_note: create_dir_all(parent), then fs::write
write_note(s, path, content, t) ==
    [s EXCEPT !.dirs = @ \cup DirPrefixes(FsKey(path)),
              !.files = Put(@, FsKey(path), [content |-> content, mtime |-> t])]

\* NoteFilesystem::delete_note: remove_dir_all(root_path.join(path)),
\* which fails when the directory does not exist
fs_delete_ok(s, path) == FsKey(path) \in s.dirs

fs_delete_note(s, path) ==
    [s EXCEPT !.dirs = {d \in @ : ~Under(d, FsKey(path))},
              !.files = Restrict(@, {k \in DOMAIN @ : ~Under(k, FsKey(path))})]

\* NoteFilesystem::scan_all: read_dir of the root fails when it is gone
scan_ok(s) == <<>> \in s.dirs

\* NoteFilesystem::scan_dir: every directory with an _index.md, not
\* descending into directories named _backups
scan_all(s) ==
    {k \in DOMAIN s.files :
        \A i \in 1..Len(Components(k)) : Components(k)[i] # BACKUPS}

----------------------------------------------------------------------------
(* Index: the tables notes and notes_fts *)

SecondsPerDay == 86400
RecencyScale == 100

note_exists(s, path) == path \in DOMAIN s.notes

\* INTEGER PRIMARY KEY without AUTOINCREMENT: one more than the largest rowid
NextRowid(s) ==
    IF DOMAIN s.notes = {} THEN 1
    ELSE Max({s.notes[p].id : p \in DOMAIN s.notes}) + 1

\* INSERT INTO notes (path, parent_path, mtime, content_hash, archived, archived_at)
NewRow(id, parent, mtime, hash) ==
    [id |-> id, parent_path |-> parent, mtime |-> mtime, content_hash |-> hash,
     archived |-> 0, archived_at |-> NullInt, access_count |-> 0,
     last_accessed_at |-> NullInt, frecency_score |-> 0, direct_access_count |-> 0]

\* SELECT path FROM notes WHERE path LIKE '<path>/%'
LikeDescendants(s, path) ==
    {q \in DOMAIN s.notes : Like(path \o SLASH \o <<"%">>, q)}

\* the rows of a query in rowid order
RECURSIVE ByRowid(_, _)
ByRowid(s, P) ==
    IF P = {} THEN <<>>
    ELSE LET p == CHOOSE x \in P : \A y \in P : s.notes[x].id <= s.notes[y].id
         IN <<p>> \o ByRowid(s, P \ {p})

Ok(s) == [st |-> s, res |-> "Ok", val |-> FALSE]
OkVal(s, v) == [st |-> s, res |-> "Ok", val |-> v]
Err(s, kind) == [st |-> s, res |-> kind, val |-> FALSE]

\* sync_note that rewrites the row without comparing the hashes
sync_note_unconditional(s, path) ==
    IF ~scan_ok(s) THEN Err(s, "Io")
    ELSE IF path \notin scan_all(s) THEN Err(s, "NotFound")
    ELSE
      LET content == read_note(s, path)
          content_hash == compute_hash(content)
          mtime == s.files[path].mtime
          parent_path == get_parent_path(path)
      IN IF note_exists(s, path)
         THEN OkVal([s EXCEPT
                  !.notes[path].mtime = mtime,
                  !.notes[path].content_hash = content_hash,
                  !.notes[path].parent_path = parent_path,
                  !.fts = Put(@, s.notes[path].id,
                              [path |-> path, content |-> content])],
                TRUE)
         ELSE LET id == NextRowid(s)
                  s1 == [s EXCEPT !.notes =
                           Put(@, path, NewRow(id, parent_path, mtime, content_hash))]
              IN IF id \in DOMAIN s.fts THEN Err(s1, "Database")
                 ELSE OkVal([s1 EXCEPT !.fts =
                               Put(@, id, [path |-> path, content |-> content])],
                            TRUE)

\* sync_note that never rewrites a row it finds
sync_note_insert_only(s, path) ==
    IF ~scan_ok(s) THEN Err(s, "Io")
    ELSE IF path \notin scan_all(s) THEN Err(s, "NotFound")
    ELSE IF note_exists(s, path) THEN OkVal(s, FALSE)
    ELSE LET id == NextRowid(s)
             content == read_note(s, path)
             s1 == [s EXCEPT !.notes =
                      Put(@, path, NewRow(id, get_parent_path(path),
                                          s.files[path].mtime, compute_hash(content)))]
         IN IF id \in DOMAIN s.fts THEN Err(s1, "Database")
            ELSE OkVal([s1 EXCEPT !.fts =
                          Put(@, id, [path |-> path, content |-> content])], TRUE)

\* NotesApi::sync_note
sync_note(s, path) ==
    IF ~scan_ok(s) THEN Err(s, "Io")
    ELSE IF path \notin scan_all(s) THEN Err(s, "NotFound")
    ELSE
      LET content == read_note(s, path)
          content_hash == compute_hash(content)
          mtime == s.files[path].mtime
          parent_path == get_parent_path(path)
      IN IF note_exists(s, path)
         THEN LET id == s.notes[path].id
              IN IF s.notes[path].content_hash # content_hash
                 THEN OkVal([s EXCEPT
                          !.notes[path].mtime = mtime,
                          !.notes[path].content_hash = content_hash,
                          !.notes[path].parent_path = parent_path,
                          !.fts = Put(@, id, [path |-> path, content |-> content])],
                        TRUE)
                 ELSE OkVal(s, FALSE)
         ELSE LET id == NextRowid(s)
                  s1 == [s EXCEPT !.notes =
                           Put(@, path, NewRow(id, parent_path, mtime, content_hash))]
              IN \* INSERT INTO notes_fts with a rowid the shadow still holds
                 \* fails with a constraint error
                 IF id \in DOMAIN s.fts THEN Err(s1, "Database")
                 ELSE OkVal([s1 EXCEPT !.fts =
                               Put(@, id, [path |-> path, content |-> content])],
                            TRUE)

\* the loop of rescan over fs_notes; scan_dir lists a directory before the
\* directories below it
RECURSIVE SyncEach(_, _)
SyncEach(s, P) ==
    IF P = {} THEN Ok(s)
    ELSE LET p == CHOOSE x \in P : \A y \in P : Len(x) <= Len(y)
         IN Bind(sync_note(s, p),
                 LAMBDA r : IF r.res # "Ok" THEN Err(r.st, r.res)
                            ELSE SyncEach(r.st, P \ {p}))

\* rescan without the removal of the rows that have no note on disk
rescan_nopurge(s) ==
    IF ~scan_ok(s) THEN Err(s, "Io") ELSE SyncEach(s, scan_all(s))

\* NotesApi::rescan
rescan(s) ==
    IF ~scan_ok(s) THEN Err(s, "Io")
    ELSE LET fs_paths == scan_all(s)
             db_paths == DOMAIN s.notes
         IN Bind(SyncEach(s, fs_paths),
                 LAMBDA r :
                    IF r.res # "Ok" THEN r
                    ELSE Ok([r.st EXCEPT !.notes =
                               Restrict(@, {p \in DOMAIN @ :
                                   ~(p \in db_paths /\ p \notin fs_paths)})]))

\* NotesApi::calculate_frecency_score, in hundredths of nothing: the score
\* is count * 100 / (days + 1) with days = seconds / 86400, computed here
\* with integer division
calculate_frecency_score(access_count, last_accessed_at, now) ==
    IF last_accessed_at = NullInt THEN 0
    ELSE LET seconds == IF now - last_accessed_at < 0 THEN 0
                        ELSE now - last_accessed_at
         IN (access_count * RecencyScale * SecondsPerDay)
                \div (seconds + SecondsPerDay)

\* update_frecency that leaves access_count alone on a direct access
update_frecency_split(s, path, access_time, is_direct) ==
    [s EXCEPT !.notes[path].access_count = IF is_direct THEN @ ELSE @ + 1,
              !.notes[path].last_accessed_at = access_time,
              !.notes[path].direct_access_count = IF is_direct THEN @ + 1 ELSE @]

\* NotesApi::update_frecency, where note_exists(s, path)
update_frecency(s, path, access_time, is_direct) ==
    LET new_count == s.notes[path].access_count + 1
        new_score == calculate_frecency_score(new_count, access_time, access_time)
    IN [s EXCEPT !.notes[path].access_count = new_count,
                 !.notes[path].last_accessed_at = access_time,
                 !.notes[path].frecency_score = new_score,
                 !.notes[path].direct_access_count =
                     IF is_direct THEN @ + 1 ELSE @]

\* record_access that stops at the parent
PropagateToParentOnly(s, current, now) ==
    LET parent_path == get_parent_path(current)
    IN IF parent_path # NULL /\ note_exists(s, parent_path)
       THEN update_frecency(s, parent_path, now, FALSE) ELSE s

\* the loop of record_access over the ancestors of current
RECURSIVE PropagateAccess(_, _, _)
PropagateAccess(s, current, now) ==
    LET parent_path == get_parent_path(current)
    IN IF parent_path = NULL THEN s
       ELSE Bind(IF note_exists(s, parent_path)
                 THEN update_frecency(s, parent_path, now, FALSE) ELSE s,
                 LAMBDA s1 : PropagateAccess(s1, parent_path, now))

\* NotesApi::record_access (the callback is a step of the thread model)
record_access(s, path, now) ==
    IF ~note_exists(s, path) THEN Err(s, "Database")
    ELSE Bind(update_frecency(s, path, now, TRUE),
              LAMBDA s1 : Ok(PropagateAccess(s1, path, now)))

----------------------------------------------------------------------------
(* Notes API: the operations of NotesApi, each from a store s to the store *)
(* it leaves and the Result it returns.  An early return with ? keeps what *)
(* the operation wrote before it.                                          *)

\* create_note that does not look for the parent
create_note_any_parent(s, path, now) ==
    IF note_exists(s, path) THEN Err(s, "AlreadyExists")
    ELSE IF fs_exists(s, path) THEN Err(s, "Io")
    ELSE Bind(sync_note(write_note(s, path, "", now), path),
              LAMBDA r : IF r.res # "Ok" THEN Err(r.st, r.res) ELSE Ok(r.st))

\* create_note that records an access of the new note
create_note_recording(s, path, now) ==
    IF note_exists(s, path) THEN Err(s, "AlreadyExists")
    ELSE IF get_parent_path(path) # NULL /\ ~note_exists(s, get_parent_path(path))
         THEN Err(s, "ParentNotFound")
    ELSE IF fs_exists(s, path) THEN Err(s, "Io")
    ELSE Bind(sync_note(write_note(s, path, "", now), path),
              LAMBDA r : IF r.res # "Ok" THEN Err(r.st, r.res)
                         ELSE record_access(r.st, path, now))

\* NotesApi::create_note
create_note(s, path, now) ==
    IF note_exists(s, path) THEN Err(s, "AlreadyExists")
    ELSE IF get_parent_path(path) # NULL /\ ~note_exists(s, get_parent_path(path))
         THEN Err(s, "ParentNotFound")
    ELSE IF fs_exists(s, path) THEN Err(s, "Io")          \* fs.create_note
    ELSE Bind(sync_note(write_note(s, path, "", now), path),
              LAMBDA r :
                 IF r.res # "Ok" THEN Err(r.st, r.res)
                 ELSE IF ~fs_exists(r.st, path) \/ ~note_exists(r.st, path)
                      THEN Err(r.st, "NotFound")          \* get_note_internal
                 ELSE Ok(r.st))

\* NotesApi::get_note
get_note(s, path, now) ==
    IF ~fs_exists(s, path) \/ ~note_exists(s, path) THEN Err(s, "NotFound")
    ELSE record_access(s, path, now)

\* save_note without its record_access
save_note_unrecorded(s, path, content, now) ==
    Bind(sync_note(write_note(s, path, content, now), path),
         LAMBDA r : IF r.res # "Ok" THEN Err(r.st, r.res) ELSE Ok(r.st))

\* NotesApi::save_note
save_note(s, path, content, now) ==
    Bind(sync_note(write_note(s, path, content, now), path),
         LAMBDA r : IF r.res # "Ok" THEN Err(r.st, r.res)
                    ELSE record_access(r.st, path, now))

\* a DELETE of the row at path alone
DeleteRows_exact(s, path) ==
    [s EXCEPT !.notes = Restrict(@, {q \in DOMAIN @ : q # path})]

\* DELETE FROM notes WHERE path = ?1 OR path LIKE '<path>/%'
DeleteRows(s, path) ==
    [s EXCEPT !.notes =
        Restrict(@, {q \in DOMAIN @ : q # path /\ q \notin LikeDescendants(s, path)})]

\* NotesApi::delete_note
delete_note(s, path) ==
    IF ~fs_delete_ok(s, path) THEN Err(s, "NotFound")
    ELSE Ok(DeleteRows(fs_delete_note(s, path), path))

\* NotesApi::trash_note; backend_ok is whether trash::delete succeeds
trash_note(s, path, backend_ok) ==
    IF ~fs_delete_ok(s, path) \/ ~backend_ok THEN Err(s, "NotFound")
    ELSE Ok(DeleteRows(fs_delete_note(s, path), path))

\* a move that inserts a new row for the new path instead of updating the
\* row: the counts start again
MoveRow_fresh_counts(s, from, to, mode, now) ==
    IF from \notin DOMAIN s.notes THEN [ok |-> TRUE, st |-> s]
    ELSE IF to # from /\ to \in DOMAIN s.notes THEN [ok |-> FALSE, st |-> s]
    ELSE LET row == [s.notes[from] EXCEPT
                       !.parent_path = get_parent_path(to),
                       !.archived = IF mode = "archive" THEN 1
                                    ELSE IF mode = "unarchive" THEN 0 ELSE @,
                       !.archived_at = IF mode = "archive" THEN now
                                       ELSE IF mode = "unarchive" THEN NullInt ELSE @,
                       !.access_count = 0,
                       !.direct_access_count = 0,
                       !.last_accessed_at = NullInt,
                       !.frecency_score = 0]
         IN [ok |-> TRUE,
             st |-> [s EXCEPT !.notes =
                       Put(Restrict(@, DOMAIN @ \ {from}), to, row)]]

\* an UPDATE that sets the path and leaves parent_path as it was
MoveRow_stale_parent(s, from, to, mode, now) ==
    IF from \notin DOMAIN s.notes THEN [ok |-> TRUE, st |-> s]
    ELSE IF to # from /\ to \in DOMAIN s.notes THEN [ok |-> FALSE, st |-> s]
    ELSE LET row == [s.notes[from] EXCEPT
                       !.archived = IF mode = "archive" THEN 1
                                    ELSE IF mode = "unarchive" THEN 0 ELSE @,
                       !.archived_at = IF mode = "archive" THEN now
                                       ELSE IF mode = "unarchive" THEN NullInt ELSE @]
         IN [ok |-> TRUE,
             st |-> [s EXCEPT !.notes =
                       Put(Restrict(@, DOMAIN @ \ {from}), to, row)]]

\* UPDATE notes SET path = to, parent_path = ... WHERE path = from, with the
\* archived columns set as the operation sets them.  ok is FALSE when the
\* UNIQUE constraint on path fails.
MoveRow(s, from, to, mode, now) ==
    IF from \notin DOMAIN s.notes THEN [ok |-> TRUE, st |-> s]
    ELSE IF to # from /\ to \in DOMAIN s.notes THEN [ok |-> FALSE, st |-> s]
    ELSE LET row == [s.notes[from] EXCEPT
                       !.parent_path = get_parent_path(to),
                       !.archived = IF mode = "archive" THEN 1
                                    ELSE IF mode = "unarchive" THEN 0 ELSE @,
                       !.archived_at = IF mode = "archive" THEN now
                                       ELSE IF mode = "unarchive" THEN NullInt ELSE @]
         IN [ok |-> TRUE,
             st |-> [s EXCEPT !.notes =
                       Put(Restrict(@, DOMAIN @ \ {from}), to, row)]]

\* the loop of UPDATEs over the descendants: pairs of <<old, new>>
RECURSIVE MoveRows(_, _, _, _)
MoveRows(s, pairs, mode, now) ==
    IF pairs = <<>> THEN [ok |-> TRUE, st |-> s]
    ELSE Bind(MoveRow(s, pairs[1][1], pairs[1][2], mode, now),
              LAMBDA r : IF ~r.ok THEN r ELSE MoveRows(r.st, Tail(pairs), mode, now))

\* a loop of write_note over <<path, content>> pairs
RECURSIVE WriteEach(_, _, _)
WriteEach(s, items, now) ==
    IF items = <<>> THEN s
    ELSE Bind(write_note(s, items[1][1], items[1][2], now),
              LAMBDA s1 : WriteEach(s1, Tail(items), now))

\* the temporary path of a case-only rename: old_path, "_temp_" and the
\* nanoseconds of the clock
TempPath(old_path, nanos) ==
    old_path \o <<"_", "t", "e", "m", "p", "_">> \o nanos

\* rename_note without the test for a row at new_path
rename_note_overwriting(s, old_path, new_path, now, nanos) ==
    IF ~note_exists(s, old_path) THEN Err(s, "NotFound")
    ELSE
    LET is_case_only_rename ==
            to_lowercase(old_path) = to_lowercase(new_path) /\ old_path # new_path
    IN
    IF ~fs_exists(s, old_path) THEN Err(s, "Io")
    ELSE
    LET content == read_note(s, old_path)
        desc == ByRowid(s, LikeDescendants(s, old_path))
        \* read_note(&path).unwrap_or_default()
        dcontent == [i \in 1..Len(desc) |->
                        IF fs_exists(s, desc[i]) THEN read_note(s, desc[i]) ELSE ""]
        temp_path == TempPath(old_path, nanos)
        toTemp == [i \in 1..Len(desc) |->
                     <<replacen1(desc[i], old_path, temp_path), dcontent[i]>>]
        toNew == [i \in 1..Len(desc) |->
                     <<replacen1(desc[i], old_path, new_path), dcontent[i]>>]
        moves == [i \in 1..Len(desc) |->
                     <<desc[i], replacen1(desc[i], old_path, new_path)>>]
        \* the filesystem step; ok is FALSE when a delete_note fails
        fsr ==
            IF is_case_only_rename
            THEN Bind(WriteEach(write_note(s, temp_path, content, now), toTemp, now),
                   LAMBDA s1 :
                     IF ~fs_delete_ok(s1, old_path) THEN [ok |-> FALSE, st |-> s1]
                     ELSE Bind(WriteEach(write_note(fs_delete_note(s1, old_path),
                                                    new_path, content, now),
                                         toNew, now),
                            LAMBDA s3 :
                              [ok |-> TRUE,
                               st |-> IF fs_delete_ok(s3, temp_path)
                                      THEN fs_delete_note(s3, temp_path) ELSE s3]))
            ELSE Bind(WriteEach(write_note(s, new_path, content, now), toNew, now),
                   LAMBDA s1 :
                     IF ~fs_delete_ok(s1, old_path) THEN [ok |-> FALSE, st |-> s1]
                     ELSE [ok |-> TRUE, st |-> fs_delete_note(s1, old_path)])
        \* the index step
        idx(s4) ==
            Bind(MoveRow(s4, old_path, new_path, "rename", now),
              LAMBDA r1 :
                IF ~r1.ok THEN Err(r1.st, "Database")
                ELSE Bind(MoveRows(r1.st, moves, "rename", now),
                       LAMBDA r2 : IF ~r2.ok THEN Err(r2.st, "Database")
                                   ELSE Ok(r2.st)))
    IN Bind(fsr, LAMBDA f : IF ~f.ok THEN Err(f.st, "Io") ELSE idx(f.st))

\* NotesApi::rename_note
rename_note(s, old_path, new_path, now, nanos) ==
    IF ~note_exists(s, old_path) THEN Err(s, "NotFound")
    ELSE
    LET is_case_only_rename ==
            to_lowercase(old_path) = to_lowercase(new_path) /\ old_path # new_path
    IN
    IF ~is_case_only_rename /\ note_exists(s, new_path) THEN Err(s, "AlreadyExists")
    ELSE IF ~fs_exists(s, old_path) THEN Err(s, "Io")
    ELSE
    LET content == read_note(s, old_path)
        desc == ByRowid(s, LikeDescendants(s, old_path))
        \* read_note(&path).unwrap_or_default()
        dcontent == [i \in 1..Len(desc) |->
                        IF fs_exists(s, desc[i]) THEN read_note(s, desc[i]) ELSE ""]
        temp_path == TempPath(old_path, nanos)
        toTemp == [i \in 1..Len(desc) |->
                     <<replacen1(desc[i], old_path, temp_path), dcontent[i]>>]
        toNew == [i \in 1..Len(desc) |->
                     <<replacen1(desc[i], old_path, new_path), dcontent[i]>>]
        moves == [i \in 1..Len(desc) |->
                     <<desc[i], replacen1(desc[i], old_path, new_path)>>]
        \* the filesystem step; ok is FALSE when a delete_note fails
        fsr ==
            IF is_case_only_rename
            THEN Bind(WriteEach(write_note(s, temp_path, content, now), toTemp, now),
                   LAMBDA s1 :
                     IF ~fs_delete_ok(s1, old_path) THEN [ok |-> FALSE, st |-> s1]
                     ELSE Bind(WriteEach(write_note(fs_delete_note(s1, old_path),
                                                    new_path, content, now),
                                         toNew, now),
                            LAMBDA s3 :
                              [ok |-> TRUE,
                               st |-> IF fs_delete_ok(s3, temp_path)
                                      THEN fs_delete_note(s3, temp_path) ELSE s3]))
            ELSE Bind(WriteEach(write_note(s, new_path, content, now), toNew, now),
                   LAMBDA s1 :
                     IF ~fs_delete_ok(s1, old_path) THEN [ok |-> FALSE, st |-> s1]
                     ELSE [ok |-> TRUE, st |-> fs_delete_note(s1, old_path)])
        \* the index step
        idx(s4) ==
            Bind(MoveRow(s4, old_path, new_path, "rename", now),
              LAMBDA r1 :
                IF ~r1.ok THEN Err(r1.st, "Database")
                ELSE Bind(MoveRows(r1.st, moves, "rename", now),
                       LAMBDA r2 : IF ~r2.ok THEN Err(r2.st, "Database")
                                   ELSE Ok(r2.st)))
    IN Bind(fsr, LAMBDA f : IF ~f.ok THEN Err(f.st, "Io") ELSE idx(f.st))

\* an archive path that puts every note in the archive of the root
ArchivePath_root_bucket(path) == ARCHIVE \o SLASH \o LastSegment(path)

\* the archive path of archive_note
ArchivePath(path) ==
    IF get_parent_path(path) # NULL
    THEN get_parent_path(path) \o SLASH \o ARCHIVE \o SLASH \o LastSegment(path)
    ELSE ARCHIVE \o SLASH \o path

\* the loop "Move descendants" of archive_note and unarchive_note: read the
\* old file, write the new one; ok is FALSE when a read fails
RECURSIVE MoveFiles(_, _, _)
MoveFiles(s, pairs, now) ==
    IF pairs = <<>> THEN [ok |-> TRUE, st |-> s]
    ELSE IF ~fs_exists(s, pairs[1][1]) THEN [ok |-> FALSE, st |-> s]
    ELSE Bind(write_note(s, pairs[1][2], read_note(s, pairs[1][1]), now),
              LAMBDA s1 : MoveFiles(s1, Tail(pairs), now))

\* the body shared by archive_note and unarchive_note once the target of the
\* note and of each descendant is known
Relocate(s, path, target, moves, mode, now) ==
    IF ~fs_exists(s, path) THEN Err(s, "Io")
    ELSE LET content == read_note(s, path)
             \* the index step
             idx(s2) ==
                Bind(MoveRow(s2, path, target, mode, now),
                  LAMBDA r1 :
                    IF ~r1.ok THEN Err(r1.st, "Database")
                    ELSE Bind(MoveRows(r1.st, moves, mode, now),
                           LAMBDA r2 : IF ~r2.ok THEN Err(r2.st, "Database")
                                       ELSE Ok(r2.st)))
         IN Bind(MoveFiles(s, moves, now),
              LAMBDA m :
                IF ~m.ok THEN Err(m.st, "Io")
                ELSE Bind(write_note(m.st, target, content, now),
                       LAMBDA s1 :
                         IF ~fs_delete_ok(s1, path) THEN Err(s1, "Io")
                         ELSE Bind(fs_delete_note(s1, path), idx)))

\* NotesApi::archive_note
archive_note(s, path, now) ==
    LET archive_path == ArchivePath(path)
        desc == ByRowid(s, LikeDescendants(s, path))
        moves == [i \in 1..Len(desc) |->
                    <<desc[i], replacen1(desc[i], path, archive_path)>>]
    IN Relocate(s, path, archive_path, moves, "archive", now)

ARCHIVE_DIR == SLASH \o ARCHIVE \o SLASH

\* the restore path of unarchive_note
UnarchivePath(path) == replace(path, ARCHIVE_DIR, SLASH)

\* NotesApi::unarchive_note
unarchive_note(s, path, now) ==
    IF ~Contains(path, ARCHIVE_DIR) THEN Err(s, "NotFound")
    ELSE LET desc == ByRowid(s, LikeDescendants(s, path))
             moves == [i \in 1..Len(desc) |-> <<desc[i], UnarchivePath(desc[i])>>]
         IN Relocate(s, path, UnarchivePath(path), moves, "unarchive", now)

----------------------------------------------------------------------------
(* The inputs *)

pa == <<"a">>
pb == <<"b">>
pab == <<"a", "/", "b">>
pabc == <<"a", "/", "b", "/", "c">>
ROOT == <<>>

Paths == {pa, pab, pabc, pb}
Contents == {"", "v", "w"}

\* the note trees found on disk when the API is constructed
InitTrees == {{}, {pa}, {pa, pab}, {pa, pab, pabc}, {pa, pb}, {pab}}

InitContent(p) == IF Len(Components(p)) = 1 THEN "v" ELSE "w"

EmptyStore == [files |-> <<>>, dirs |-> {ROOT}, notes |-> <<>>, fts |-> <<>>]

\* a directory tree as an external program left it
DiskOf(tree) ==
    [EmptyStore EXCEPT
        !.files = [p \in tree |-> [content |-> InitContent(p), mtime |-> 1]],
        !.dirs = {ROOT} \cup UNION {DirPrefixes(p) : p \in tree}]

----------------------------------------------------------------------------
(* The API driven by one caller, one whole operation at a time *)

st == [files |-> files, dirs |-> dirs, notes |-> notes, fts |-> fts]

NoOp == [op |-> "init", path |-> ROOT, arg |-> ROOT, content |-> "",
         res |-> "Ok", val |-> FALSE]

IdleThreads ==
    /\ mutex = "free"
    /\ cpc = "idle"
    /\ cop = NoOp
    /\ wpc = "idle"
    /\ wev = NoOp
    /\ events = {}
    /\ emitted = {}
    /\ wlog = NoOp
    /\ ext = 0
    /\ failed = FALSE

----------------------------------------------------------------------------
(* The schema of .notes.db: run_migrations and verify_schema.  A database  *)
(* is its user_version, the names of its tables and indexes, and the       *)
(* columns added to the table notes after its creation.                    *)

NewDatabase == [version |-> 0, objects |-> {}, columns |-> {}]

CreateTable(name) == [kind |-> "table", name |-> name, on |-> "", version |-> 0]
CreateIndex(name, column) == [kind |-> "index", name |-> name, on |-> column, version |-> 0]
AddColumn(name) == [kind |-> "column", name |-> name, on |-> "", version |-> 0]
SetUserVersion(v) == [kind |-> "version", name |-> "", on |-> "", version |-> v]

\* the columns of CREATE TABLE notes
CreatedColumns ==
    {"id", "path", "parent_path", "mtime", "content_hash", "archived", "archived_at"}

\* the batch of each "if version < n" of run_migrations, then its
\* pragma_update
Migration(n) ==
    CASE n = 1 -> <<CreateTable("notes"),
                    CreateIndex("idx_parent_path", "parent_path"),
                    CreateIndex("idx_archived", "archived"),
                    CreateTable("notes_fts"),
                    SetUserVersion(1)>>
      [] n = 2 -> <<AddColumn("access_count"),
                    AddColumn("last_accessed_at"),
                    AddColumn("frecency_score"),
                    CreateIndex("idx_frecency_score", "frecency_score"),
                    SetUserVersion(2)>>
      [] n = 3 -> <<AddColumn("direct_access_count"),
                    CreateIndex("idx_direct_access_count", "direct_access_count"),
                    SetUserVersion(3)>>

\* one statement as SQLite runs it: the database it leaves and whether it
\* succeeded
Execute(db, stmt) ==
    CASE stmt.kind = "table" ->
            IF stmt.name \in db.objects THEN [db |-> db, ok |-> FALSE]
            ELSE [db |-> [db EXCEPT !.objects = @ \cup {stmt.name}], ok |-> TRUE]
      [] stmt.kind = "index" ->
            IF \/ "notes" \notin db.objects
               \/ stmt.name \in db.objects
               \/ stmt.on \notin CreatedColumns \cup db.columns
            THEN [db |-> db, ok |-> FALSE]
            ELSE [db |-> [db EXCEPT !.objects = @ \cup {stmt.name}], ok |-> TRUE]
      [] stmt.kind = "column" ->
            IF "notes" \notin db.objects \/ stmt.name \in db.columns
            THEN [db |-> db, ok |-> FALSE]
            ELSE [db |-> [db EXCEPT !.columns = @ \cup {stmt.name}], ok |-> TRUE]
      [] stmt.kind = "version" ->
            [db |-> [db EXCEPT !.version = stmt.version], ok |-> TRUE]

\* the statements run_migrations runs for the version it read at its start
RECURSIVE Pending(_, _)
Pending(version, n) ==
    IF n > 3 THEN <<>>
    ELSE (IF version < n THEN Migration(n) ELSE <<>>) \o Pending(version, n + 1)

\* the statements one after the other until one fails or the process is
\* killed after budget statements; applied lists the versions stored
RECURSIVE RunStatements(_, _, _, _)
RunStatements(db, stmts, budget, applied) ==
    IF stmts = <<>> THEN [db |-> db, res |-> "Ok", applied |-> applied]
    ELSE IF budget = 0 THEN [db |-> db, res |-> "Killed", applied |-> applied]
    ELSE LET r == Execute(db, Head(stmts))
         IN IF ~r.ok THEN [db |-> db, res |-> "Database", applied |-> applied]
            ELSE RunStatements(r.db, Tail(stmts), budget - 1,
                               IF Head(stmts).kind = "version"
                               THEN Append(applied, Head(stmts).version)
                               ELSE applied)

\* run_migrations
run_migrations(db, budget) ==
    RunStatements(db, Pending(db.version, 1), budget, <<>>)

\* verify_schema that looks for the table notes alone
verify_schema_notes_only(db) ==
    IF "notes" \notin db.objects THEN "DatabaseCorrupted" ELSE "Ok"

\* verify_schema
verify_schema(db) ==
    IF "notes" \notin db.objects THEN "DatabaseCorrupted"
    ELSE IF "notes_fts" \notin db.objects THEN "DatabaseCorrupted"
    ELSE "Ok"

\* the database part of NotesApi::new: run_migrations(&db)?; verify_schema(&db)?
OpenDatabase(db, budget) ==
    LET m == run_migrations(db, budget)
    IN IF m.res # "Ok" THEN m ELSE [m EXCEPT !.res = verify_schema(m.db)]

\* more statements than any open runs
Unlimited == Len(Pending(0, 1)) + 1

\* NotesApi::new on a directory, then startup_sync
InitStore(tree) == rescan(DiskOf(tree)).st

\* the state after NotesApi::new found the database db and the trees
InitWith(trees, db) ==
    /\ schema = db
    /\ \E s \in {InitStore(tree) : tree \in trees} :
          /\ files = s.files
          /\ dirs = s.dirs
          /\ notes = s.notes
          /\ fts = s.fts
          /\ pre = s
          /\ snap = [store |-> s, path |-> ROOT, arg |-> ROOT,
                      res |-> "none", at |-> 0 - 1]
    /\ flag = FALSE
    /\ clock = 1
    /\ steps = 0
    /\ last = NoOp
    /\ IdleThreads

InitOn(trees) == InitWith(trees, OpenDatabase(NewDatabase, Unlimited).db)

Init == InitOn(InitTrees)

\* the operation op(path, arg, content) ran as one step and returned r
RanWithin(bound, op, path, arg, content, result) ==
    /\ steps < bound
    /\ steps' = steps + 1
    /\ \E r \in {result} :
          /\ files' = r.st.files
          /\ dirs' = r.st.dirs
          /\ notes' = r.st.notes
          /\ fts' = r.st.fts
          /\ last' = [op |-> op, path |-> path, arg |-> arg, content |-> content,
                      res |-> r.res, val |-> r.val]
    /\ pre' = st
    /\ UNCHANGED <<flag, clock, threadVars, schema>>

Ran(op, path, arg, content, r) == RanWithin(MaxOps, op, path, arg, content, r)

CreateNote(path) ==
    /\ Ran("create_note", path, ROOT, "", create_note(st, path, clock))
    /\ UNCHANGED snap

GetNote(path) ==
    /\ Ran("get_note", path, ROOT, "", get_note(st, path, clock))
    /\ UNCHANGED snap

SaveNote(path, content) ==
    /\ Ran("save_note", path, ROOT, content, save_note(st, path, content, clock))
    /\ UNCHANGED snap

DeleteNote(path) ==
    /\ Ran("delete_note", path, ROOT, "", delete_note(st, path))
    /\ UNCHANGED snap

TrashNote(path, backend_ok) ==
    /\ Ran("trash_note", path, ROOT, "", trash_note(st, path, backend_ok))
    /\ UNCHANGED snap

RenameNote(old_path, new_path) ==
    /\ Ran("rename_note", old_path, new_path, "",
           rename_note(st, old_path, new_path, clock, <<"1">>))
    /\ UNCHANGED snap

ArchiveNote(path) ==
    /\ RanWithin(MaxArchiveOps, "archive_note", path, ArchivePath(path), "",
                 archive_note(st, path, clock))
    /\ snap' = [store |-> st, path |-> path, arg |-> ArchivePath(path),
                res |-> last'.res, at |-> steps]

UnarchiveNote(path) ==
    /\ RanWithin(MaxArchiveOps, "unarchive_note", path, UnarchivePath(path), "",
                 unarchive_note(st, path, clock))
    /\ UNCHANGED snap

SyncNote(path) ==
    /\ Ran("sync_note", path, ROOT, "", sync_note(st, path))
    /\ UNCHANGED snap

Rescan ==
    /\ Ran("rescan", ROOT, ROOT, "", rescan(st))
    /\ UNCHANGED snap

\* another program writes <path>/_index.md
ExtWrite(path, content) ==
    /\ Ran("ext_write", path, ROOT, content, Ok(write_note(st, path, content, clock)))
    /\ UNCHANGED snap

\* another program removes the directory of path
ExtRemove(path) ==
    /\ fs_delete_ok(st, path)
    /\ Ran("ext_remove", path, ROOT, "", Ok(fs_delete_note(st, path)))
    /\ UNCHANGED snap

Next ==
    \/ \E p \in Paths : CreateNote(p)
    \/ \E p \in Paths : GetNote(p)
    \/ \E p \in Paths, c \in Contents : SaveNote(p, c)
    \/ \E p \in Paths : DeleteNote(p)
    \/ \E p \in Paths : SyncNote(p)
    \/ Rescan
    \/ \E p \in Paths, c \in Contents : ExtWrite(p, c)
    \/ \E p \in Paths : ExtRemove(p)

Spec == Init /\ [][Next]_vars

----------------------------------------------------------------------------
(* Properties of the store *)

\* q is a proper ancestor of the note path p: p continues q with a segment
IsAncestor(q, p) == q # ROOT /\ StartsWith(p, q \o SLASH)

\* C1: after rescan returns Ok, the index rows are the notes scan_all finds
\* on disk, and each row holds the hash of its note's file content
C1_RescanReconciles ==
    (last.op = "rescan" /\ last.res = "Ok") =>
        /\ DOMAIN notes = scan_all(st)
        /\ \A p \in DOMAIN notes :
              notes[p].content_hash = compute_hash(files[p].content)

\* a rescan that had rows to drop and a note to index or to refresh
C1_Witness ==
    /\ last.op = "rescan" /\ last.res = "Ok"
    /\ \/ DOMAIN pre.notes # DOMAIN notes
       \/ \E p \in DOMAIN notes \cap DOMAIN pre.notes :
             notes[p].content_hash # pre.notes[p].content_hash

\* C2: after save_note(p, c) returns Ok, the file of p holds c and the row
\* of p holds hash(c)
C2_SaveNoteWritesThrough ==
    (last.op = "save_note" /\ last.res = "Ok") =>
        /\ fs_exists(st, last.path)
        /\ read_note(st, last.path) = last.content
        /\ note_exists(st, last.path)
        /\ notes[last.path].content_hash = compute_hash(last.content)

\* a save over an indexed note with other content
C2_Witness ==
    /\ last.op = "save_note" /\ last.res = "Ok"
    /\ note_exists(pre, last.path)
    /\ fs_exists(pre, last.path)
    /\ read_note(pre, last.path) # last.content

\* C10: a successful get_note or save_note of p raises access_count of every
\* indexed ancestor of p by one and leaves its direct_access_count; rows
\* that are neither p nor an ancestor of p keep both counts
C10_AncestorsCountOnce ==
    (last.op \in {"get_note", "save_note"} /\ last.res = "Ok") =>
        \A q \in DOMAIN notes \ {last.path} :
            /\ q \in DOMAIN pre.notes
            /\ notes[q].direct_access_count = pre.notes[q].direct_access_count
            /\ notes[q].access_count =
                  pre.notes[q].access_count
                    + (IF IsAncestor(q, last.path) THEN 1 ELSE 0)

\* an access to a note whose parent and grandparent are indexed, beside a
\* row that is no ancestor
C10_Witness ==
    /\ last.op \in {"get_note", "save_note"} /\ last.res = "Ok"
    /\ last.path = pabc
    /\ {pa, pab} \subseteq DOMAIN notes
    /\ notes[pa].access_count >= 1

----------------------------------------------------------------------------
(* rename_note *)

pA == <<"A">>
RenamePaths == {pa, pb, pab, pA}

NextRename ==
    \/ \E old_path \in RenamePaths, new_path \in RenamePaths :
          RenameNote(old_path, new_path)
    \/ \E p \in RenamePaths, c \in Contents : SaveNote(p, c)

SpecRename == Init /\ [][NextRename]_vars

\* the path q, which is old or below old/, with the prefix old replaced by new
Rebased(q, old, new) == new \o SubSeq(q, Len(old) + 1, Len(q))

AtOrBelow(q, p) == q = p \/ StartsWith(q, p \o SLASH)

\* C3: after rename_note(old, new) returns Ok, no row is at old or below
\* old/, and every note that was indexed and on disk at old or below old/
\* is, with its content, at the same suffix below new in the index and on
\* disk
C3_RenameMovesSubtree ==
    (last.op = "rename_note" /\ last.res = "Ok") =>
        /\ \A q \in DOMAIN notes : ~AtOrBelow(q, last.path)
        /\ \A q \in DOMAIN pre.notes :
              (AtOrBelow(q, last.path) /\ fs_exists(pre, q)) =>
                  LET n == Rebased(q, last.path, last.arg)
                  IN /\ note_exists(st, n)
                     /\ fs_exists(st, n)
                     /\ read_note(st, n) = read_note(pre, q)

----------------------------------------------------------------------------
(* archive_note and unarchive_note *)

NextArchive ==
    \/ \E p \in Paths : ArchiveNote(p)
    \/ \E p \in DOMAIN notes : UnarchiveNote(p)

SpecArchive == Init /\ [][NextArchive]_vars

\* the last two operations were archive_note(p), which returned Ok on an
\* indexed note p, and unarchive_note of the archive path of p
RoundTrip ==
    /\ last.op = "unarchive_note"
    /\ snap.res = "Ok"
    /\ snap.at = steps - 2
    /\ last.path = snap.arg
    /\ note_exists(snap.store, snap.path)

\* C4: archive_note(p) followed by unarchive_note of the archive path
\* succeeds and restores the store: the same paths are indexed with the
\* same ids, the files of p and below hold the same content, and the rows
\* of p and below that were not archived before are not archived
C4_ArchiveRoundTrip ==
    RoundTrip =>
        /\ last.res = "Ok"
        /\ DOMAIN notes = DOMAIN snap.store.notes
        /\ \A q \in DOMAIN snap.store.notes : AtOrBelow(q, snap.path) =>
              /\ note_exists(st, q)
              /\ notes[q].id = snap.store.notes[q].id
              /\ fs_exists(snap.store, q) =>
                    (fs_exists(st, q) /\ read_note(st, q) = read_note(snap.store, q))
              /\ snap.store.notes[q].archived = 0 =>
                    (notes[q].archived = 0 /\ notes[q].archived_at = NullInt)

----------------------------------------------------------------------------
(* The API behind Arc<Mutex<NotesApi>>: a caller thread running tauri       *)
(* commands and the watcher thread running the notify callback.  A command  *)
(* locks the mutex, runs one API method and unlocks; the method is split at *)
(* its filesystem step and its index step.                                  *)

GuardedOps == {"create_note", "save_note", "delete_note", "trash_note",
               "rename_note", "archive_note", "unarchive_note"}

ThreadPaths == {pa, pab}
ThreadTrees == {{}, {pa}, {pa, pab}}

Call(op, path, arg, content, backend_ok) ==
    [op |-> op, path |-> path, arg |-> arg, content |-> content,
     backend_ok |-> backend_ok, res |-> "running", val |-> FALSE]

\* the commands a frontend may invoke
Calls ==
    {Call("create_note", p, ROOT, "", TRUE) : p \in ThreadPaths}
    \cup {Call("get_note", p, ROOT, "", TRUE) : p \in ThreadPaths}
    \cup {Call("save_note", p, ROOT, "w", TRUE) : p \in ThreadPaths}
    \cup {Call("delete_note", p, ROOT, "", TRUE) : p \in ThreadPaths}
    \cup {Call("trash_note", pa, ROOT, "", ok) : ok \in BOOLEAN}
    \cup {Call("rename_note", pa, pb, "", TRUE)}
    \cup {Call("archive_note", pab, ROOT, "", TRUE)}
    \cup {Call("unarchive_note", ArchivePath(pab), ROOT, "", TRUE)}

\* the whole method of a command that moves notes
Moved(c, s, now) ==
    IF c.op = "rename_note" THEN rename_note(s, c.path, c.arg, now, <<"1">>)
    ELSE IF c.op = "archive_note" THEN archive_note(s, c.path, now)
    ELSE unarchive_note(s, c.path, now)

\* the method up to and including its writes to the filesystem; a result
\* other than Ok is the method's early return
FsStep(c, s, now) ==
    IF c.op = "create_note"
    THEN IF note_exists(s, c.path) THEN Err(s, "AlreadyExists")
         ELSE IF get_parent_path(c.path) # NULL
                 /\ ~note_exists(s, get_parent_path(c.path))
              THEN Err(s, "ParentNotFound")
         ELSE IF fs_exists(s, c.path) THEN Err(s, "Io")
         ELSE Ok(write_note(s, c.path, "", now))
    ELSE IF c.op = "save_note" THEN Ok(write_note(s, c.path, c.content, now))
    ELSE IF c.op \in {"delete_note", "trash_note"}
    THEN IF ~fs_delete_ok(s, c.path) \/ ~c.backend_ok THEN Err(s, "NotFound")
         ELSE Ok(fs_delete_note(s, c.path))
    ELSE Bind(Moved(c, s, now),
              LAMBDA r : IF r.res # "Ok" THEN r
                         ELSE Ok([s EXCEPT !.files = r.st.files,
                                           !.dirs = r.st.dirs]))

\* the rest of the method: its writes to the index.  s0 is the store the
\* method found at entry, from which a move has read the rows it rewrites.
IndexStep(c, s, s0, now) ==
    IF c.op = "create_note"
    THEN Bind(sync_note(s, c.path),
              LAMBDA r : IF r.res # "Ok" THEN Err(r.st, r.res)
                         ELSE IF ~fs_exists(r.st, c.path) \/ ~note_exists(r.st, c.path)
                              THEN Err(r.st, "NotFound")
                         ELSE Ok(r.st))
    ELSE IF c.op = "save_note"
    THEN Bind(sync_note(s, c.path),
              LAMBDA r : IF r.res # "Ok" THEN Err(r.st, r.res)
                         ELSE record_access(r.st, c.path, now))
    ELSE IF c.op \in {"delete_note", "trash_note"} THEN Ok(DeleteRows(s, c.path))
    ELSE Bind(Moved(c, s0, now),
              LAMBDA r : Ok([s EXCEPT !.notes = r.st.notes, !.fts = r.st.fts]))

\* the _index.md files that differ between two states of the disk
Touched(s, t) ==
    {k \in DOMAIN s.files \cup DOMAIN t.files :
        \/ k \notin DOMAIN s.files
        \/ k \notin DOMAIN t.files
        \/ s.files[k] # t.files[k]}

\* a notify event on the _index.md of a note, or on a renamed directory
Event(kind, path, src, op) == [kind |-> kind, path |-> path, src |-> src, op |-> op]

\* the events the filesystem step of a command raises
ApiEvents(c, s, r) ==
    {Event("data", k, "api", c.op) :
        k \in Touched(s, r.st)
              \cup (IF r.res = "Ok" /\ c.op \in {"create_note", "save_note"}
                    THEN {FsKey(c.path)} ELSE {})}

seqVars == <<clock, last, snap, schema>>
histVars == <<ext, failed>>

\* a method whose return leaves the guard as it is
ExitPcKeepingGuard(op) == "unlock"

\* where a method goes when it returns: a guarded method drops its guard
ExitPc(op) == IF op \in GuardedOps THEN "drop" ELSE "unlock"

\* state.notes_api.lock().unwrap()
CallerLock(c) ==
    /\ cpc = "idle"
    /\ mutex = "free"
    /\ steps < MaxCalls
    /\ steps' = steps + 1
    /\ mutex' = "caller"
    /\ cop' = c
    /\ cpc' = IF c.op \in GuardedOps THEN "guard" ELSE "body"
    /\ UNCHANGED <<storeVars, flag, pre, seqVars, wpc, wev, events, emitted, wlog,
                   histVars>>

\* OperationGuard::new
CallerGuard ==
    /\ cpc = "guard"
    /\ flag' = TRUE
    /\ cpc' = "fs"
    /\ UNCHANGED <<storeVars, steps, pre, seqVars, mutex, cop, wpc, wev, events,
                   emitted, wlog, histVars>>

\* the filesystem step of a guarded method
CallerFs ==
    /\ cpc = "fs"
    /\ \E r \in {FsStep(cop, st, clock)} :
          /\ files' = r.st.files
          /\ dirs' = r.st.dirs
          /\ notes' = r.st.notes
          /\ fts' = r.st.fts
          /\ events' = events \cup ApiEvents(cop, st, r)
          /\ failed' = (failed \/ r.res # "Ok")
          /\ cop' = [cop EXCEPT !.res = IF r.res = "Ok" THEN "running" ELSE r.res]
          /\ cpc' = IF r.res = "Ok" THEN "index" ELSE ExitPc(cop.op)
    /\ pre' = st
    /\ UNCHANGED <<flag, steps, seqVars, mutex, wpc, wev, emitted, wlog, ext>>

\* the index step of a guarded method
CallerIndex ==
    /\ cpc = "index"
    /\ \E r \in {IndexStep(cop, st, pre, clock)} :
          /\ notes' = r.st.notes
          /\ fts' = r.st.fts
          /\ failed' = (failed \/ r.res # "Ok")
          /\ cop' = [cop EXCEPT !.res = r.res]
          /\ cpc' = IF r.res = "Ok" /\ cop.op = "save_note" THEN "callback"
                    ELSE ExitPc(cop.op)
    /\ UNCHANGED <<files, dirs, flag, steps, pre, seqVars, mutex, wpc, wev, events,
                   emitted, wlog, ext>>

\* NotesApi::get_note, which takes no guard
CallerGetNote ==
    /\ cpc = "body"
    /\ \E r \in {get_note(st, cop.path, clock)} :
          /\ notes' = r.st.notes
          /\ fts' = r.st.fts
          /\ failed' = (failed \/ r.res # "Ok")
          /\ cop' = [cop EXCEPT !.res = r.res]
          /\ cpc' = IF r.res = "Ok" THEN "callback" ELSE ExitPc(cop.op)
    /\ UNCHANGED <<files, dirs, flag, steps, pre, seqVars, mutex, wpc, wev, events,
                   emitted, wlog, ext>>

\* record_access invokes the frecency callback
CallerCallback ==
    /\ cpc = "callback"
    /\ emitted' = emitted \cup {"FrecencyUpdated"}
    /\ cpc' = ExitPc(cop.op)
    /\ UNCHANGED <<storeVars, flag, steps, pre, seqVars, mutex, cop, wpc, wev, events,
                   wlog, histVars>>

\* a method that returns without running the drop of its guard
CallerDropForgotten ==
    /\ cpc = "drop"
    /\ cpc' = "unlock"
    /\ UNCHANGED <<storeVars, flag, steps, pre, seqVars, mutex, cop, wpc, wev, events,
                   emitted, wlog, histVars>>

\* OperationGuard::drop, as the method returns
CallerDrop ==
    /\ cpc = "drop"
    /\ flag' = FALSE
    /\ cpc' = "unlock"
    /\ UNCHANGED <<storeVars, steps, pre, seqVars, mutex, cop, wpc, wev, events,
                   emitted, wlog, histVars>>

\* the MutexGuard goes out of scope as the command returns
CallerUnlock ==
    /\ cpc = "unlock"
    /\ mutex' = "free"
    /\ cpc' = "idle"
    /\ cop' = NoOp
    /\ pre' = st
    /\ UNCHANGED <<storeVars, flag, steps, seqVars, wpc, wev, events, emitted, wlog,
                   histVars>>

\* is_note_related: an _index.md, or a directory that holds one
is_note_related(e) == e.kind = "data" \/ fs_exists(st, e.path)

\* notify delivers an event to the callback of setup_watcher
WatcherTake ==
    /\ wpc = "idle"
    /\ \E e \in events :
          /\ events' = events \ {e}
          /\ IF is_note_related(e)
             THEN wpc' = "lock" /\ wev' = e
             ELSE UNCHANGED <<wpc, wev>>
    /\ UNCHANGED <<storeVars, flag, steps, pre, seqVars, mutex, cpc, cop, emitted,
                   wlog, histVars>>

\* the watcher that runs the handler without notes_api.lock()
WatcherNoLock ==
    /\ wpc = "lock"
    /\ wpc' = IF wev.kind = "name" THEN "rescan" ELSE "flag"
    /\ UNCHANGED <<storeVars, flag, steps, pre, seqVars, mutex, cpc, cop, wev, events,
                   emitted, wlog, histVars>>

\* notes_api.lock()
WatcherLock ==
    /\ wpc = "lock"
    /\ mutex = "free"
    /\ mutex' = "watcher"
    /\ wpc' = IF wev.kind = "name" THEN "rescan" ELSE "flag"
    /\ UNCHANGED <<storeVars, flag, steps, pre, seqVars, cpc, cop, wev, events,
                   emitted, wlog, histVars>>

Handled(e, skipped, res, changed, wrote) ==
    [op |-> e.op, path |-> e.path, src |-> e.src, ext |-> ext,
     failed |-> failed,
     skipped |-> skipped, res |-> res, changed |-> changed, wrote |-> wrote]

\* api.operation_flag().load(SeqCst): continue when it is set
WatcherFlag ==
    /\ wpc = "flag"
    /\ IF flag
       THEN /\ wpc' = "unlock"
            /\ wlog' = Handled(wev, TRUE, "none", FALSE, FALSE)
       ELSE /\ wpc' = "sync"
            /\ UNCHANGED wlog
    /\ UNCHANGED <<storeVars, flag, steps, pre, seqVars, mutex, cpc, cop, wev, events,
                   emitted, histVars>>

\* the handler with the lock held up to the callback, or released before it
WatcherSyncThen(holder) ==
    /\ wpc = "sync"
    /\ \E r \in {sync_note(st, wev.path)} :
          /\ files' = r.st.files
          /\ dirs' = r.st.dirs
          /\ notes' = r.st.notes
          /\ fts' = r.st.fts
          /\ wlog' = Handled(wev, FALSE, r.res, r.val,
                             r.st.notes # notes \/ r.st.fts # fts)
          /\ wpc' = IF r.res = "Ok" /\ r.val THEN "callback" ELSE "unlock"
          /\ mutex' = IF r.res = "Ok" /\ r.val THEN holder ELSE mutex
    /\ UNCHANGED <<flag, steps, pre, seqVars, cpc, cop, wev, events, emitted,
                   histVars>>

\* the handler that notifies after every sync_note that returns Ok
WatcherSyncNotifying ==
    /\ wpc = "sync"
    /\ \E r \in {sync_note(st, wev.path)} :
          /\ files' = r.st.files
          /\ dirs' = r.st.dirs
          /\ notes' = r.st.notes
          /\ fts' = r.st.fts
          /\ wlog' = Handled(wev, FALSE, r.res, r.val,
                             r.st.notes # notes \/ r.st.fts # fts)
          /\ wpc' = IF r.res = "Ok" THEN "callback" ELSE "unlock"
          /\ UNCHANGED mutex
    /\ UNCHANGED <<flag, steps, pre, seqVars, cpc, cop, wev, events, emitted,
                   histVars>>

WatcherSyncReleasing == WatcherSyncThen("free")

\* api.sync_note(&note_path), with the MutexGuard alive in the match arms
WatcherSync == WatcherSyncThen("watcher")

\* api.rescan() after a rename
WatcherRescan ==
    /\ wpc = "rescan"
    /\ \E r \in {rescan(st)} :
          /\ files' = r.st.files
          /\ dirs' = r.st.dirs
          /\ notes' = r.st.notes
          /\ fts' = r.st.fts
          /\ wpc' = IF r.res = "Ok" THEN "callback" ELSE "unlock"
    /\ UNCHANGED <<flag, steps, pre, seqVars, mutex, cpc, cop, wev, events, emitted,
                   wlog, histVars>>

\* callback(WatcherEvent::NotesChanged) or callback(WatcherEvent::NotesRenamed)
WatcherCallback ==
    /\ wpc = "callback"
    /\ emitted' = emitted \cup {IF wev.kind = "name" THEN "NotesRenamed"
                                 ELSE "NotesChanged"}
    /\ wpc' = "unlock"
    /\ UNCHANGED <<storeVars, flag, steps, pre, seqVars, mutex, cpc, cop, wev, events,
                   wlog, histVars>>

\* the MutexGuard of the handler goes out of scope
WatcherUnlock ==
    /\ wpc = "unlock"
    /\ mutex' = "free"
    /\ wpc' = "idle"
    /\ wev' = NoOp
    /\ UNCHANGED <<storeVars, flag, steps, pre, seqVars, cpc, cop, events, emitted,
                   wlog, histVars>>

\* another program writes <path>/_index.md, within a bound on such changes
ExternalWriteWithin(bound, path, content) ==
    /\ ext < bound
    /\ ext' = ext + 1
    /\ \E t \in {write_note(st, path, content, clock)} :
          /\ files' = t.files
          /\ dirs' = t.dirs
    /\ events' = events \cup {Event("data", FsKey(path), "ext", "write")}
    /\ UNCHANGED <<notes, fts, flag, steps, pre, seqVars, mutex, cpc, cop, wpc, wev,
                   emitted, wlog, failed>>

\* the disk after mv from to
fs_move(s, from, to) ==
    LET rebase(k) == IF Under(k, from) THEN to \o SubSeq(k, Len(from) + 1, Len(k))
                     ELSE k
        moved == {k \in DOMAIN s.files : Under(k, from)}
        kept == DOMAIN s.files \ moved
    IN [s EXCEPT
          !.files = [k \in kept \cup {rebase(m) : m \in moved} |->
                        IF k \in kept THEN s.files[k]
                        ELSE s.files[CHOOSE m \in moved : rebase(m) = k]],
          !.dirs = {rebase(d) : d \in @}]

\* another program writes <path>/_index.md
ExternalWrite(path, content) == ExternalWriteWithin(MaxExternal, path, content)

\* another program renames the directory of a note, within a bound
ExternalMoveWithin(bound, from, to) ==
    /\ ext < bound
    /\ ext' = ext + 1
    /\ from # to
    /\ fs_exists(st, from)
    /\ FsKey(to) \notin dirs
    /\ \E t \in {fs_move(st, FsKey(from), FsKey(to))} :
          /\ files' = t.files
          /\ dirs' = t.dirs
    /\ events' = events \cup {Event("name", FsKey(to), "ext", "move")}
    /\ UNCHANGED <<notes, fts, flag, steps, pre, seqVars, mutex, cpc, cop, wpc, wev,
                   emitted, wlog, failed>>

\* another program renames the directory of a note
ExternalMove(from, to) == ExternalMoveWithin(MaxExternal, from, to)

NextThreads ==
    \/ \E c \in Calls : CallerLock(c)
    \/ CallerGuard
    \/ CallerFs
    \/ CallerIndex
    \/ CallerGetNote
    \/ CallerCallback
    \/ CallerDrop
    \/ CallerUnlock
    \/ WatcherTake
    \/ WatcherLock
    \/ WatcherFlag
    \/ WatcherSync
    \/ WatcherRescan
    \/ WatcherCallback
    \/ WatcherUnlock
    \/ \E p \in ThreadPaths : ExternalWrite(p, "v")
    \/ ExternalMove(pa, pb)

InitThreads == InitOn(ThreadTrees)

SpecThreads == InitThreads /\ [][NextThreads]_vars

----------------------------------------------------------------------------
(* Properties of the threads *)

InGuardedMethod == cop.op \in GuardedOps /\ cpc \in {"fs", "index", "callback", "drop"}

\* C5: the flag is set exactly while one of create_note, save_note,
\* delete_note, trash_note, rename_note, archive_note and unarchive_note is
\* executing: set at entry, kept until the method returns, and cleared on
\* every return, an error return included.
C5_FlagScopedToGuardedMethods == flag <=> InGuardedMethod

\* a guarded method has returned an error and the flag is clear
C5_Witness ==
    /\ cpc = "unlock"
    /\ cop.op \in GuardedOps
    /\ cop.res \notin {"Ok", "running"}
    /\ ~flag

\* the watcher has handled an event that a save_note of the API raised
WatcherHandledSave == wlog.op = "save_note" /\ wlog.src = "api"

\* C6: for every event raised by a save_note of the API the watcher sees the
\* flag set and skips sync_note, so the watcher invokes sync_note zero times.
C6_WatcherSkipsOwnSave == WatcherHandledSave => wlog.skipped

\* the watcher has handled an event raised by a create_note or save_note of
\* the API, where no call of the API has failed and no other program has
\* touched the disk
WatcherHandledOwnWrite ==
    /\ wlog.op \in {"create_note", "save_note"}
    /\ wlog.src = "api"
    /\ wlog.ext = 0
    /\ ~wlog.failed

C8_MethodsUnderTheMutex ==
    /\ cpc \in {"guard", "body", "fs", "index", "callback", "drop", "unlock"}
          => mutex = "caller"
    /\ wpc \in {"flag", "sync", "rescan", "callback", "unlock"} => mutex = "watcher"
    /\ cpc = "index" => wpc \notin {"flag", "sync", "rescan"}

\* the watcher holds an event of a method that is between its filesystem
\* step and its index step, and waits for the mutex
C8_Witness ==
    /\ cpc = "index"
    /\ wpc = "lock"
    /\ wev.src = "api"
    /\ wev.op = cop.op

\* C9 as stated: the frecency callback and on_change run only after the
\* thread that invokes them has released the mutex.
C9_CallbacksAfterRelease ==
    /\ cpc = "callback" => mutex # "caller"
    /\ wpc = "callback" => mutex # "watcher"

\* C9 amended: the frecency callback and on_change run while the thread that
\* invokes them holds the mutex, so a callback that locks it would block.
C9_CallbacksUnderTheMutex ==
    /\ cpc = "callback" => mutex = "caller"
    /\ wpc = "callback" => mutex = "watcher"

\* on_change is running after the frecency callback has run
C9_Witness ==
    /\ wpc = "callback"
    /\ mutex = "watcher"
    /\ "FrecencyUpdated" \in emitted

----------------------------------------------------------------------------
(* Every operation of the API, the reconciler and other programs, one whole *)
(* operation at a time                                                      *)

NextAll ==
    \/ \E p \in Paths : CreateNote(p)
    \/ \E p \in Paths : GetNote(p)
    \/ \E p \in Paths, c \in Contents : SaveNote(p, c)
    \/ \E p \in Paths : DeleteNote(p)
    \/ \E p \in Paths, ok \in BOOLEAN : TrashNote(p, ok)
    \/ \E p, q \in Paths : RenameNote(p, q)
    \/ \E p \in Paths : steps < MaxOps /\ ArchiveNote(p)
    \/ \E p \in DOMAIN notes : steps < MaxOps /\ UnarchiveNote(p)
    \/ \E p \in Paths : SyncNote(p)
    \/ Rescan
    \/ \E p \in Paths, c \in Contents : ExtWrite(p, c)
    \/ \E p \in Paths : ExtRemove(p)

SpecAll == Init /\ [][NextAll]_vars

----------------------------------------------------------------------------
(* Properties of the index under every operation *)

\* C11: every row of the index has access_count >= direct_access_count >= 0,
\* whatever operations of the API, syncs and rescans have run.
C11_AccessCountsOrdered ==
    \A p \in DOMAIN notes :
        /\ notes[p].access_count >= notes[p].direct_access_count
        /\ notes[p].direct_access_count >= 0

\* a row was accessed directly and also through a descendant
C11_Witness ==
    \E p \in DOMAIN notes :
        /\ notes[p].direct_access_count >= 1
        /\ notes[p].access_count > notes[p].direct_access_count

\* the last operation was sync_note(p) and it returned Ok
SyncReturned == last.op = "sync_note" /\ last.res = "Ok"

\* C12: sync_note(p) returns true exactly when it inserts a row or the hash
\* the row holds differs from the hash of the file, and a second
\* sync_note(p) right after it returns false and leaves the index as it is.
C12_SyncReportsChange ==
    SyncReturned =>
        /\ last.val = (\/ ~note_exists(pre, last.path)
                       \/ pre.notes[last.path].content_hash
                             # compute_hash(read_note(pre, last.path)))
        /\ last.val = (notes # pre.notes)
        /\ sync_note(st, last.path) = OkVal(st, FALSE)

\* sync_note found a row with a stale hash and returned true
C12_Witness ==
    /\ SyncReturned
    /\ last.val
    /\ note_exists(pre, last.path)

\* C13: create_note(p) returns AlreadyExists when p has a row, and
\* ParentNotFound when p has no row and its parent path is not empty and has
\* no row; in both cases the files and the index are as before.
C13_CreateNoteRefuses ==
    last.op = "create_note" =>
        LET parent == get_parent_path(last.path)
        IN /\ note_exists(pre, last.path) => last.res = "AlreadyExists"
           /\ (/\ ~note_exists(pre, last.path)
               /\ parent # NULL
               /\ ~note_exists(pre, parent)) => last.res = "ParentNotFound"
           /\ last.res \in {"AlreadyExists", "ParentNotFound"} => st = pre

\* create_note was refused for a parent that is on disk and has no row
C13_Witness ==
    /\ last.op = "create_note"
    /\ last.res = "ParentNotFound"
    /\ fs_exists(pre, get_parent_path(last.path))
    /\ st = pre

----------------------------------------------------------------------------
(* The API on a store that starts empty *)

InitEmpty == InitOn({{}})

NextFromEmpty ==
    \/ \E p \in Paths : CreateNote(p)
    \/ \E p \in Paths, c \in Contents : SaveNote(p, c)
    \/ \E p, q \in Paths : RenameNote(p, q)
    \/ \E p \in Paths : DeleteNote(p)
    \/ \E p \in Paths : ArchiveNote(p)
    \/ \E p \in DOMAIN notes : UnarchiveNote(p)

SpecFromEmpty == InitEmpty /\ [][NextFromEmpty]_vars

\* C14: starting from an empty store, after any operations of the API every
\* row that is not archived and has a parent_path has a row at that path.
C14_NoOrphans ==
    \A p \in DOMAIN notes :
        (notes[p].archived = 0 /\ notes[p].parent_path # NULL)
            => note_exists(st, notes[p].parent_path)

----------------------------------------------------------------------------
(* Properties of the rows: parents, the full-text shadow, ids *)

\* the path without its last segment, NULL when it has one segment or none
WithoutLastSegment(path) ==
    LET I == {i \in 1..Len(path) : path[i] = "/"}
    IN IF I = {} \/ Max(I) = 1 THEN NULL ELSE SubSeq(path, 1, Max(I) - 1)

\* C15: in every reachable state the parent_path of each row is its path
\* without the last segment, absent for a path of one segment; sync_note,
\* rename_note, archive_note and unarchive_note keep this for the row they
\* move and for every descendant row.
C15_ParentPathDerived ==
    \A p \in DOMAIN notes : notes[p].parent_path = WithoutLastSegment(p)

\* a rename, archive or unarchive has moved a row together with a descendant
C15_Witness ==
    /\ last.op \in {"rename_note", "archive_note", "unarchive_note"}
    /\ last.res = "Ok"
    /\ \E p, q \in DOMAIN notes \ DOMAIN pre.notes :
          /\ notes[q].parent_path = p
          /\ notes[p].id \in {pre.notes[o].id : o \in DOMAIN pre.notes}
          /\ notes[q].id \in {pre.notes[o].id : o \in DOMAIN pre.notes}

\* C16: after any operations of the API and rescans the full-text shadow
\* holds one entry for each row, keyed by the id of the row, and no entry
\* whose id has no row.
C16_ShadowMatchesRows ==
    DOMAIN fts = {notes[p].id : p \in DOMAIN notes}

\* the ids held by the rows of an index
IdsOf(rows) == {rows[p].id : p \in DOMAIN rows}

\* C17: an id assigned to a row on insertion is never assigned again to a
\* different note, also after delete_note, trash_note or rescan removed the
\* row that held it: an id that the last operation removed from the index
\* is not given to a row at another path by the next one.
C17_IdsNeverReused ==
    [][\A o \in DOMAIN pre.notes :
          pre.notes[o].id \notin IdsOf(notes)
              => \A p \in DOMAIN notes' : notes'[p].id = pre.notes[o].id => p = o]_vars

----------------------------------------------------------------------------
(* Properties of archive_note, unarchive_note and delete_note *)

\* the rows at path or under path/
RowsAtOrUnder(rows, path) ==
    {q \in DOMAIN rows : q = path \/ StartsWith(q, path \o SLASH)}

\* archive_note(p) returned Ok on an indexed note p
ArchiveReturned ==
    last.op = "archive_note" /\ last.res = "Ok" /\ note_exists(pre, last.path)

\* C18: archive_note(p) moves p to q/_archive/<last segment of p> when p has
\* the parent q and to _archive/p otherwise; afterwards there is no row at p
\* or under p/, the row at the archive path has archived = 1 and archived_at
\* set, and every descendant row is under the archive path with archived = 1.
C18_ArchiveMovesSubtree ==
    ArchiveReturned =>
        LET p == last.path
            q == WithoutLastSegment(p)
            target == IF q # NULL THEN q \o SLASH \o ARCHIVE \o SLASH \o LastSegment(p)
                      ELSE ARCHIVE \o SLASH \o p
        IN /\ RowsAtOrUnder(notes, p) = {}
           /\ ~fs_exists(st, p)
           /\ fs_exists(st, target) /\ read_note(st, target) = read_note(pre, p)
           /\ \A o \in RowsAtOrUnder(pre.notes, p) :
                 LET n == target \o SubSeq(o, Len(p) + 1, Len(o))
                 IN /\ n \in DOMAIN notes
                    /\ notes[n].id = pre.notes[o].id
                    /\ notes[n].archived = 1
                    /\ notes[n].archived_at # NullInt
                    /\ fs_exists(st, n) /\ read_note(st, n) = read_note(pre, o)

\* a note with a parent and a descendant has been archived
C18_Witness ==
    /\ ArchiveReturned
    /\ WithoutLastSegment(last.path) # NULL
    /\ \E o \in DOMAIN pre.notes : StartsWith(o, last.path \o SLASH)
    /\ \E n \in DOMAIN notes : StartsWith(n, last.arg \o SLASH) /\ notes[n].archived = 1

\* C19: unarchive_note(p) fails with NotFound and changes nothing when p
\* does not contain "/_archive/"; otherwise the note and each descendant move
\* to their path with only the first "/_archive/" replaced by "/", and their
\* rows get archived = 0 and archived_at absent.
C19_UnarchiveFirstSegmentOnly ==
    last.op = "unarchive_note" =>
        /\ ~Contains(last.path, ARCHIVE_DIR) => (last.res = "NotFound" /\ st = pre)
        /\ (Contains(last.path, ARCHIVE_DIR) /\ last.res = "Ok"
                /\ note_exists(pre, last.path)) =>
              \A o \in RowsAtOrUnder(pre.notes, last.path) :
                 LET n == replacen1(o, ARCHIVE_DIR, SLASH)
                 IN /\ n \in DOMAIN notes
                    /\ notes[n].id = pre.notes[o].id
                    /\ notes[n].archived = 0
                    /\ notes[n].archived_at = NullInt

\* delete_note(p) returned Ok
DeleteReturned == last.op = "delete_note" /\ last.res = "Ok"

\* C20: after delete_note(p) returns Ok the index has no row at p and no row
\* under p/, and the directory of p with all notes below it is gone from the
\* filesystem.
C20_DeleteRemovesSubtree ==
    DeleteReturned =>
        LET p == last.path
        IN /\ RowsAtOrUnder(notes, p) = {}
           /\ \A d \in dirs : d # p /\ ~StartsWith(d, p \o SLASH)
           /\ \A k \in DOMAIN files : k # p /\ ~StartsWith(k, p \o SLASH)

\* a note with an indexed descendant on disk has been deleted
C20_Witness ==
    /\ DeleteReturned
    /\ note_exists(pre, last.path)
    /\ \E o \in DOMAIN pre.notes :
          StartsWith(o, last.path \o SLASH) /\ fs_exists(pre, o)

----------------------------------------------------------------------------
(* Properties of rename_note *)

\* lowercase(old) = lowercase(new) and old # new
CaseOnly(old, new) == to_lowercase(old) = to_lowercase(new) /\ old # new

\* C21: rename_note(old, new) fails with NotFound when old has no row, and
\* with AlreadyExists when the rename is not case-only and new has a row; in
\* both cases the filesystem and the index are unchanged.
C21_RenameRefuses ==
    last.op = "rename_note" =>
        /\ ~note_exists(pre, last.path) => (last.res = "NotFound" /\ st = pre)
        /\ (note_exists(pre, last.path) /\ ~CaseOnly(last.path, last.arg)
                /\ note_exists(pre, last.arg))
              => (last.res = "AlreadyExists" /\ st = pre)

\* a rename onto another indexed note has been refused
C21_Witness ==
    /\ last.op = "rename_note"
    /\ last.res = "AlreadyExists"
    /\ last.path # last.arg
    /\ note_exists(pre, last.path) /\ note_exists(pre, last.arg)
    /\ st = pre

----------------------------------------------------------------------------
(* rename_note on a filesystem that does not distinguish case *)

\* the file of a note on a volume that folds case: names that differ in
\* case alone are the same directory
ci_FsKey(path) == to_lowercase(FsKey(path))

ci_fs_exists(s, path) == ci_FsKey(path) \in DOMAIN s.files

ci_read_note(s, path) == s.files[ci_FsKey(path)].content

ci_write_note(s, path, content, t) ==
    [s EXCEPT !.dirs = @ \cup DirPrefixes(ci_FsKey(path)),
              !.files = Put(@, ci_FsKey(path), [content |-> content, mtime |-> t])]

ci_fs_delete_ok(s, path) == ci_FsKey(path) \in s.dirs

ci_fs_delete_note(s, path) ==
    [s EXCEPT !.dirs = {d \in @ : ~Under(d, ci_FsKey(path))},
              !.files = Restrict(@, {k \in DOMAIN @ : ~Under(k, ci_FsKey(path))})]

RECURSIVE ci_WriteEach(_, _, _)
ci_WriteEach(s, items, now) ==
    IF items = <<>> THEN s
    ELSE Bind(ci_write_note(s, items[1][1], items[1][2], now),
              LAMBDA s1 : ci_WriteEach(s1, Tail(items), now))

\* rename_note that takes the regular branch for a case-only rename
rename_note_ci_direct(s, old_path, new_path, now, nanos) ==
    IF ~note_exists(s, old_path) THEN Err(s, "NotFound")
    ELSE
    LET is_case_only_rename ==
            to_lowercase(old_path) = to_lowercase(new_path) /\ old_path # new_path
    IN
    IF ~is_case_only_rename /\ note_exists(s, new_path) THEN Err(s, "AlreadyExists")
    ELSE IF ~ci_fs_exists(s, old_path) THEN Err(s, "Io")
    ELSE
    LET content == ci_read_note(s, old_path)
        desc == ByRowid(s, LikeDescendants(s, old_path))
        \* ci_read_note(&path).unwrap_or_default()
        dcontent == [i \in 1..Len(desc) |->
                        IF ci_fs_exists(s, desc[i]) THEN ci_read_note(s, desc[i]) ELSE ""]
        temp_path == TempPath(old_path, nanos)
        toTemp == [i \in 1..Len(desc) |->
                     <<replacen1(desc[i], old_path, temp_path), dcontent[i]>>]
        toNew == [i \in 1..Len(desc) |->
                     <<replacen1(desc[i], old_path, new_path), dcontent[i]>>]
        moves == [i \in 1..Len(desc) |->
                     <<desc[i], replacen1(desc[i], old_path, new_path)>>]
        \* the filesystem step; ok is FALSE when a delete_note fails
        fsr ==
            IF FALSE
            THEN Bind(ci_WriteEach(ci_write_note(s, temp_path, content, now), toTemp, now),
                   LAMBDA s1 :
                     IF ~ci_fs_delete_ok(s1, old_path) THEN [ok |-> FALSE, st |-> s1]
                     ELSE Bind(ci_WriteEach(ci_write_note(ci_fs_delete_note(s1, old_path),
                                                    new_path, content, now),
                                         toNew, now),
                            LAMBDA s3 :
                              [ok |-> TRUE,
                               st |-> IF ci_fs_delete_ok(s3, temp_path)
                                      THEN ci_fs_delete_note(s3, temp_path) ELSE s3]))
            ELSE Bind(ci_WriteEach(ci_write_note(s, new_path, content, now), toNew, now),
                   LAMBDA s1 :
                     IF ~ci_fs_delete_ok(s1, old_path) THEN [ok |-> FALSE, st |-> s1]
                     ELSE [ok |-> TRUE, st |-> ci_fs_delete_note(s1, old_path)])
        \* the index step
        idx(s4) ==
            Bind(MoveRow(s4, old_path, new_path, "rename", now),
              LAMBDA r1 :
                IF ~r1.ok THEN Err(r1.st, "Database")
                ELSE Bind(MoveRows(r1.st, moves, "rename", now),
                       LAMBDA r2 : IF ~r2.ok THEN Err(r2.st, "Database")
                                   ELSE Ok(r2.st)))
    IN Bind(fsr, LAMBDA f : IF ~f.ok THEN Err(f.st, "Io") ELSE idx(f.st))

\* NotesApi::rename_note on that volume
rename_note_ci(s, old_path, new_path, now, nanos) ==
    IF ~note_exists(s, old_path) THEN Err(s, "NotFound")
    ELSE
    LET is_case_only_rename ==
            to_lowercase(old_path) = to_lowercase(new_path) /\ old_path # new_path
    IN
    IF ~is_case_only_rename /\ note_exists(s, new_path) THEN Err(s, "AlreadyExists")
    ELSE IF ~ci_fs_exists(s, old_path) THEN Err(s, "Io")
    ELSE
    LET content == ci_read_note(s, old_path)
        desc == ByRowid(s, LikeDescendants(s, old_path))
        \* ci_read_note(&path).unwrap_or_default()
        dcontent == [i \in 1..Len(desc) |->
                        IF ci_fs_exists(s, desc[i]) THEN ci_read_note(s, desc[i]) ELSE ""]
        temp_path == TempPath(old_path, nanos)
        toTemp == [i \in 1..Len(desc) |->
                     <<replacen1(desc[i], old_path, temp_path), dcontent[i]>>]
        toNew == [i \in 1..Len(desc) |->
                     <<replacen1(desc[i], old_path, new_path), dcontent[i]>>]
        moves == [i \in 1..Len(desc) |->
                     <<desc[i], replacen1(desc[i], old_path, new_path)>>]
        \* the filesystem step; ok is FALSE when a delete_note fails
        fsr ==
            IF is_case_only_rename
            THEN Bind(ci_WriteEach(ci_write_note(s, temp_path, content, now), toTemp, now),
                   LAMBDA s1 :
                     IF ~ci_fs_delete_ok(s1, old_path) THEN [ok |-> FALSE, st |-> s1]
                     ELSE Bind(ci_WriteEach(ci_write_note(ci_fs_delete_note(s1, old_path),
                                                    new_path, content, now),
                                         toNew, now),
                            LAMBDA s3 :
                              [ok |-> TRUE,
                               st |-> IF ci_fs_delete_ok(s3, temp_path)
                                      THEN ci_fs_delete_note(s3, temp_path) ELSE s3]))
            ELSE Bind(ci_WriteEach(ci_write_note(s, new_path, content, now), toNew, now),
                   LAMBDA s1 :
                     IF ~ci_fs_delete_ok(s1, old_path) THEN [ok |-> FALSE, st |-> s1]
                     ELSE [ok |-> TRUE, st |-> ci_fs_delete_note(s1, old_path)])
        \* the index step
        idx(s4) ==
            Bind(MoveRow(s4, old_path, new_path, "rename", now),
              LAMBDA r1 :
                IF ~r1.ok THEN Err(r1.st, "Database")
                ELSE Bind(MoveRows(r1.st, moves, "rename", now),
                       LAMBDA r2 : IF ~r2.ok THEN Err(r2.st, "Database")
                                   ELSE Ok(r2.st)))
    IN Bind(fsr, LAMBDA f : IF ~f.ok THEN Err(f.st, "Io") ELSE idx(f.st))

pB == <<"B">>
pAb == <<"A", "/", "b">>
paB == <<"a", "/", "B">>
CasePaths == {pa, pA, pb, pB, pab, pAb, paB}

RenameNoteCi(old_path, new_path) ==
    /\ Ran("rename_note", old_path, new_path, "",
           rename_note_ci(st, old_path, new_path, clock, <<"1">>))
    /\ UNCHANGED snap

NextCi == \E old_path \in CasePaths, new_path \in CasePaths :
             RenameNoteCi(old_path, new_path)

SpecCi == Init /\ [][NextCi]_vars

\* a case-only rename returned Ok
CaseOnlyRenamed ==
    /\ last.op = "rename_note"
    /\ last.res = "Ok"
    /\ CaseOnly(last.path, last.arg)

\* C22: a case-only rename on a filesystem that does not distinguish case
\* keeps the content of old and of every indexed descendant at the new
\* paths, leaves no temporary directory, and afterwards note_exists(old) is
\* false and note_exists(new) is true.
C22_CaseOnlyRenameKeepsContent ==
    CaseOnlyRenamed =>
        /\ ~note_exists(st, last.path)
        /\ note_exists(st, last.arg)
        /\ ci_fs_exists(st, last.arg)
        /\ ci_read_note(st, last.arg) = ci_read_note(pre, last.path)
        /\ \A q \in DOMAIN pre.notes :
              (StartsWith(q, last.path \o SLASH) /\ ci_fs_exists(pre, q)) =>
                  LET n == Rebased(q, last.path, last.arg)
                  IN /\ note_exists(st, n)
                     /\ ~note_exists(st, q)
                     /\ ci_fs_exists(st, n)
                     /\ ci_read_note(st, n) = ci_read_note(pre, q)
        /\ \A d \in dirs : ~Contains(d, <<"_", "t", "e", "m", "p", "_">>)

\* a note with an indexed descendant has been renamed to another case
C22_Witness ==
    /\ CaseOnlyRenamed
    /\ \E q \in DOMAIN pre.notes :
          /\ StartsWith(q, last.path \o SLASH)
          /\ ci_read_note(pre, q) # ""
          /\ note_exists(st, Rebased(q, last.path, last.arg))

----------------------------------------------------------------------------
(* The watcher and other programs, with no command running *)

MaxWatched == 2

\* another program removes the directory of a note with everything below it
\* (whole), or its _index.md alone; notify reports each removed file and
\* each removed directory
ExternalRemove(path, whole) ==
    /\ ext < MaxWatched
    /\ ext' = ext + 1
    /\ fs_exists(st, path)
    /\ \E t \in {IF whole THEN fs_delete_note(st, path)
                 ELSE [st EXCEPT !.files =
                          Restrict(@, DOMAIN @ \ {FsKey(path)})]} :
          /\ files' = t.files
          /\ dirs' = t.dirs
          /\ events' = events
                \cup {Event("data", k, "ext", "remove") :
                         k \in DOMAIN files \ DOMAIN t.files}
                \cup {Event("dir", d, "ext", "remove") : d \in dirs \ t.dirs}
    /\ UNCHANGED <<notes, fts, flag, steps, pre, seqVars, mutex, cpc, cop, wpc, wev,
                   emitted, wlog, failed>>

NextWatcher ==
    \/ WatcherTake
    \/ WatcherLock
    \/ WatcherFlag
    \/ WatcherSync
    \/ WatcherRescan
    \/ WatcherCallback
    \/ WatcherUnlock
    \/ \E p \in ThreadPaths, c \in Contents : ExternalWriteWithin(MaxWatched, p, c)
    \/ \E p \in ThreadPaths : ExternalMoveWithin(MaxWatched, p, pb)
    \/ \E p \in ThreadPaths, whole \in BOOLEAN : ExternalRemove(p, whole)

SpecWatcher == InitThreads /\ [][NextWatcher]_vars

\* the watcher has handled the remove event of a note that is gone from disk
WatcherHandledRemoval ==
    /\ wlog.op = "remove"
    /\ wlog.src = "ext"
    /\ ~fs_exists(st, wlog.path)

\* C23: when another program deletes a note and the watcher has processed
\* the remove event, the row of the note is gone from the index.
C23_WatcherRemovesRow ==
    WatcherHandledRemoval => ~note_exists(st, wlog.path)

\* C24: for a create, modify or remove event handled with the flag clear
\* the watcher calls sync_note on the note path and emits NotesChanged
\* exactly when the call returns changed; for a rename event it calls rescan
\* and emits NotesRenamed exactly when the rescan succeeds; a failing sync or
\* rescan emits nothing, and the handler returns so that the next event can
\* be taken.
C24_WatcherHandlesEvents ==
    [][wpc' # wpc =>
         /\ wpc = "flag" => (~flag /\ wpc' = "sync" /\ wev.kind # "name")
         /\ wpc = "sync" =>
               LET r == sync_note(st, wev.path)
               IN /\ st' = r.st
                  /\ wpc' = (IF r.res = "Ok" /\ r.val THEN "callback" ELSE "unlock")
         /\ wpc = "rescan" =>
               LET r == rescan(st)
               IN /\ wev.kind = "name"
                  /\ st' = r.st
                  /\ wpc' = (IF r.res = "Ok" THEN "callback" ELSE "unlock")
         /\ wpc = "callback" =>
               /\ wpc' = "unlock"
               /\ emitted' = emitted \cup {IF wev.kind = "name" THEN "NotesRenamed"
                                            ELSE "NotesChanged"}
         /\ wpc # "callback" => emitted' = emitted
         /\ wpc = "unlock" => (wpc' = "idle" /\ mutex' = "free")]_vars

\* a sync_note of the watcher has failed and the watcher is idle again
C24_Witness ==
    /\ wlog.res \notin {"Ok", "none"}
    /\ ~wlog.skipped
    /\ wlog.op # "init"
    /\ wpc = "idle"
    /\ mutex = "free"

----------------------------------------------------------------------------
(* The watcher under fair scheduling, after commands that remove notes *)

LiveCalls ==
    {Call("delete_note", p, ROOT, "", TRUE) : p \in ThreadPaths}
    \cup {Call("get_note", pa, ROOT, "", TRUE)}

NextLive ==
    \/ \E c \in LiveCalls : CallerLock(c)
    \/ CallerGuard
    \/ CallerFs
    \/ CallerIndex
    \/ CallerGetNote
    \/ CallerCallback
    \/ CallerDrop
    \/ CallerUnlock
    \/ WatcherTake
    \/ WatcherLock
    \/ WatcherFlag
    \/ WatcherSync
    \/ WatcherCallback
    \/ WatcherUnlock
    \/ \E p \in ThreadPaths, c \in Contents : ExternalWrite(p, c)

\* notify runs the callback for every event it holds, and the callback runs
\* to its end once it has the mutex
WatcherFairness ==
    /\ WF_vars(WatcherTake)
    /\ WF_vars(WatcherLock)
    /\ WF_vars(WatcherFlag)
    /\ WF_vars(WatcherSync)
    /\ WF_vars(WatcherCallback)
    /\ WF_vars(WatcherUnlock)

SpecLive == InitThreads /\ [][NextLive]_vars /\ WatcherFairness

\* no command is running or will run, and no other program writes again
Quiet == cpc = "idle" /\ steps = MaxCalls /\ ext = MaxExternal

\* the index holds the row of p with the hash of the file of p
Reflected(p) ==
    /\ fs_exists(st, p)
    /\ note_exists(st, p)
    /\ notes[p].content_hash = compute_hash(read_note(st, p))

\* the event of a write of another program to p waits for the watcher, the
\* index does not hold the content of p, and no NotesChanged was emitted yet
ExternalChangePending(p) ==
    /\ Quiet
    /\ wpc = "idle"
    /\ Event("data", FsKey(p), "ext", "write") \in events
    /\ fs_exists(st, p)
    /\ ~Reflected(p)
    /\ "NotesChanged" \notin emitted

\* C25: under fair scheduling of the watcher, a note created or changed by
\* another program, whose event is delivered and which nothing changes
\* afterwards, is eventually in the index with the hash of its file, and
\* NotesChanged has been emitted.
C25_ExternalChangeReflected ==
    \A p \in ThreadPaths :
        ExternalChangePending(p) ~> (Reflected(p) /\ "NotesChanged" \in emitted)

----------------------------------------------------------------------------
(* Navigation and fuzzy search: the queries of NotesApi *)

\* the characters of the inputs in the order of their bytes, the order in
\* which SQLite compares text (BINARY collation)
ByteOrder == <<"%", "-", "/", "1", "A", "B", "C", "P", "Q", "\\", "_",
               "a", "b", "c", "e", "h", "i", "m", "p", "r", "t", "v", "x">>

Ord(c) == CHOOSE i \in 1..Len(ByteOrder) : ByteOrder[i] = c

\* a < b as SQLite orders two paths
RECURSIVE PathLess(_, _)
PathLess(a, b) ==
    IF b = <<>> THEN FALSE
    ELSE IF a = <<>> THEN TRUE
    ELSE IF a[1] # b[1] THEN Ord(a[1]) < Ord(b[1])
    ELSE PathLess(Tail(a), Tail(b))

\* the columns id, path, mtime, archived of a row as NoteMetadata
Metadata(s, q) ==
    [id |-> s.notes[q].id, path |-> q, mtime |-> s.notes[q].mtime,
     archived |-> s.notes[q].archived # 0]

\* the rows P in the order of an ORDER BY; Before holds the pairs <<x, q>>
\* of P whose x sorts before q
OrderBy(s, P, Before) ==
    [i \in 1..Cardinality(P) |->
        Metadata(s, CHOOSE q \in P :
                       Cardinality({x \in P \ {q} : <<x, q>> \in Before}) = i - 1)]

\* LIMIT l, or no clause when the limit is None
Limited(rows, limit) ==
    IF limit = NullInt THEN rows ELSE SubSeq(rows, 1, Min({limit, Len(rows)}))

\* ORDER BY frecency_score DESC, path ASC
ByFrecency(s, a, b) ==
    \/ s.notes[a].frecency_score > s.notes[b].frecency_score
    \/ s.notes[a].frecency_score = s.notes[b].frecency_score /\ PathLess(a, b)

\* NotesApi::get_children
get_children(s, path) ==
    LET children == {q \in DOMAIN s.notes : s.notes[q].parent_path = path}
    IN OkVal(s, OrderBy(s, children,
                        {ab \in children \X children : ByFrecency(s, ab[1], ab[2])}))

\* has_children without "AND archived = 0"
has_children_any(s, path) ==
    OkVal(s, \E q \in DOMAIN s.notes : s.notes[q].parent_path = path)

\* NotesApi::has_children
has_children(s, path) ==
    OkVal(s, \E q \in DOMAIN s.notes :
                s.notes[q].parent_path = path /\ s.notes[q].archived = 0)

\* NotesApi::get_parent: the metadata of the parent row, <<>> for None
get_parent(s, path) ==
    LET parent_path == get_parent_path(path)
    IN IF parent_path = NULL \/ ~note_exists(s, parent_path) THEN <<>>
       ELSE <<Metadata(s, parent_path)>>

\* the loop of get_ancestors, followed by ancestors.reverse()
RECURSIVE AncestorsRootFirst(_, _)
AncestorsRootFirst(s, current) ==
    IF get_parent_path(current) = NULL THEN <<>>
    ELSE AncestorsRootFirst(s, get_parent_path(current)) \o get_parent(s, current)

\* NotesApi::get_ancestors: query_row on "WHERE path = ? AND archived = 0"
\* fails when it returns no row
get_ancestors(s, path) ==
    IF ~note_exists(s, path) \/ s.notes[path].archived # 0 THEN Err(s, "Database")
    ELSE OkVal(s, AncestorsRootFirst(s, path) \o <<Metadata(s, path)>>)

BACKSLASH == <<"\\">>

\* query.replace('%', "\\%").replace('_', "\\_")
EscapeLike(query) ==
    replace(replace(query, <<"%">>, BACKSLASH \o <<"%">>), <<"_">>, BACKSLASH \o <<"_">>)

\* the ranking column of a RankingMode
RankOf(s, q, ranking_mode) ==
    IF ranking_mode = "Visits" THEN s.notes[q].direct_access_count
    ELSE s.notes[q].frecency_score

\* fuzzy_search whose ORDER BY leaves out match_priority
fuzzy_search_by_rank(s, query, limit, ranking_mode) ==
    LET live == {q \in DOMAIN s.notes : s.notes[q].archived = 0}
        pattern == <<"%">> \o EscapeLike(query) \o <<"%">>
        matches(pat, q) == Like(to_lowercase(pat), to_lowercase(q))
        ranked(a, b) ==
            \/ RankOf(s, a, ranking_mode) > RankOf(s, b, ranking_mode)
            \/ RankOf(s, a, ranking_mode) = RankOf(s, b, ranking_mode) /\ PathLess(a, b)
        found == IF query = <<>> THEN live ELSE {q \in live : matches(pattern, q)}
    IN OkVal(s, Limited(
            OrderBy(s, found, {ab \in found \X found : ranked(ab[1], ab[2])}),
            limit))

\* NotesApi::fuzzy_search; limit is NullInt for None
fuzzy_search(s, query, limit, ranking_mode) ==
    LET live == {q \in DOMAIN s.notes : s.notes[q].archived = 0}
        pattern == <<"%">> \o EscapeLike(query) \o <<"%">>
        prefix_pattern == EscapeLike(query) \o <<"%">>
        \* LOWER(path) LIKE LOWER(?)
        matches(pat, q) == Like(to_lowercase(pat), to_lowercase(q))
        match_priority(q) == IF matches(prefix_pattern, q) THEN 1
                             ELSE IF matches(pattern, q) THEN 2 ELSE 3
        ranked(a, b) ==
            \/ RankOf(s, a, ranking_mode) > RankOf(s, b, ranking_mode)
            \/ RankOf(s, a, ranking_mode) = RankOf(s, b, ranking_mode) /\ PathLess(a, b)
        found == {q \in live : matches(pattern, q)}
    IN IF query = <<>>
       THEN OkVal(s, Limited(
                OrderBy(s, live, {ab \in live \X live : ranked(ab[1], ab[2])}),
                limit))
       ELSE OkVal(s, Limited(
                OrderBy(s, found,
                        {ab \in found \X found :
                           \/ match_priority(ab[1]) < match_priority(ab[2])
                           \/ /\ match_priority(ab[1]) = match_priority(ab[2])
                              /\ ranked(ab[1], ab[2])}),
                limit))

pac == <<"a", "/", "c">>
pbA == <<"b", "/", "A">>
pa_b == <<"a", "_", "b">>
paxb == <<"a", "x", "b">>
NavTrees == {{pa, pab, pac}, {pa, pb, pbA}, {pa, pa_b, paxb}}
NavPaths == {pa, pab, pac, pb, pbA, pa_b, paxb}
Queries == {<<>>, <<"a">>, <<"b">>, <<"a", "_", "b">>, <<"_">>, <<"%">>}
Limits == {NullInt, 1}
RankingModes == {"Visits", "Frecency"}

QueryOps == {"get_children", "has_children", "get_ancestors", "fuzzy_search"}

\* a query returns; it changes nothing in the store
Asked(op, path, arg, result) ==
    /\ last.op \notin QueryOps
    /\ last' = [op |-> op, path |-> path, arg |-> arg, content |-> "",
                res |-> result.res, val |-> result.val]
    /\ UNCHANGED <<storeVars, flag, clock, steps, pre, snap, threadVars, schema>>

GetChildren(path) == Asked("get_children", path, ROOT, get_children(st, path))

HasChildren(path) == Asked("has_children", path, ROOT, has_children(st, path))

GetAncestors(path) == Asked("get_ancestors", path, ROOT, get_ancestors(st, path))

FuzzySearch(query, limit, ranking_mode) ==
    Asked("fuzzy_search", query,
          <<ranking_mode, IF limit = NullInt THEN "None" ELSE "Some">>,
          fuzzy_search(st, query, limit, ranking_mode))

InitNav == InitOn(NavTrees)

\* a run ends with a query: the query leaves the store as it is, so the
\* operations reach every store without it
Asking == last.op \in QueryOps

NextNav ==
    \/ \E p \in NavPaths : ~Asking /\ GetNote(p)
    \/ \E p \in NavPaths : ~Asking /\ ArchiveNote(p)
    \/ \E p \in DOMAIN notes : ~Asking /\ UnarchiveNote(p)
    \/ \E p \in NavPaths \cup DOMAIN notes : GetChildren(p)
    \/ \E p \in NavPaths \cup DOMAIN notes : HasChildren(p)
    \/ \E p \in NavPaths \cup DOMAIN notes : GetAncestors(p)
    \/ \E q \in Queries, l \in Limits, m \in RankingModes : FuzzySearch(q, l, m)

SpecNav == InitNav /\ [][NextNav]_vars

\* the rows at the proper prefixes of path, the shortest first, then the row
\* of path
RECURSIVE ChainTo(_, _, _)
ChainTo(s, path, i) ==
    IF i > Len(path) THEN <<Metadata(s, path)>>
    ELSE (IF path[i] = "/" /\ note_exists(s, SubSeq(path, 1, i - 1))
          THEN <<Metadata(s, SubSeq(path, 1, i - 1))>> ELSE <<>>)
         \o ChainTo(s, path, i + 1)

\* C26: for every indexed note p, archived or not, get_ancestors(p) returns
\* Ok with the rows of the ancestors of p that exist, from the root down,
\* followed by the row of p; ancestors without a row are skipped.
C26_AncestorsEndWithSelf ==
    (last.op = "get_ancestors" /\ note_exists(st, last.path)) =>
        /\ last.res = "Ok"
        /\ last.val = ChainTo(st, last.path, 1)

\* the rows of rows with archived = 0 and the parent p
LiveChildren(rows, p) ==
    {q \in DOMAIN rows : rows[q].parent_path = p /\ rows[q].archived = 0}

\* the query follows an archive_note that returned Ok on an indexed child of
\* the path asked about
AskedAfterArchiveOfChild ==
    /\ snap.res = "Ok"
    /\ snap.at = steps - 1
    /\ note_exists(snap.store, snap.path)
    /\ snap.store.notes[snap.path].archived = 0
    /\ get_parent_path(snap.path) = last.path

\* C27: has_children(p) is true exactly when some row with archived = 0 has
\* parent_path p; after archive_note of a child of p, get_children(p) does
\* not hold that child, and has_children(p) is false only when no child of p
\* is left unarchived.
C27_ChildrenAfterArchive ==
    /\ last.op = "has_children" =>
          /\ last.res = "Ok"
          /\ last.val = (LiveChildren(notes, last.path) # {})
          /\ last.val = (\E q \in DOMAIN notes :
                            get_parent_path(q) = last.path /\ notes[q].archived = 0)
    /\ (last.op = "has_children" /\ AskedAfterArchiveOfChild) =>
          last.val = (LiveChildren(snap.store.notes, last.path) # {snap.path})
    /\ (last.op = "get_children" /\ AskedAfterArchiveOfChild) =>
          /\ last.res = "Ok"
          /\ \A i \in DOMAIN last.val :
                /\ last.val[i].path # snap.path
                /\ last.val[i].id # snap.store.notes[snap.path].id
                /\ ~last.val[i].archived

\* has_children(p) answers false after the second of two children of p was
\* archived
C27_Witness ==
    /\ last.op = "has_children" /\ AskedAfterArchiveOfChild
    /\ last.val = FALSE
    /\ Cardinality({q \in DOMAIN notes :
                       notes[q].parent_path = last.path \o SLASH \o ARCHIVE
                       /\ notes[q].archived = 1}) = 2

\* one of two children of p is archived: has_children(p) is still true and
\* get_children(p) holds the other child alone
C27_WitnessOneLeft ==
    /\ last.op = "get_children" /\ AskedAfterArchiveOfChild
    /\ Len(last.val) = 1
    /\ LiveChildren(snap.store.notes, last.path) = {snap.path, last.val[1].path}
    /\ snap.path # last.val[1].path

\* the rows with archived = 0 whose path holds query, whatever the case
Containing(rows, query) ==
    {q \in DOMAIN rows :
        /\ rows[q].archived = 0
        /\ Contains(to_lowercase(q), to_lowercase(query))}

\* the place of the row q in the stated order: prefix matches first, then the
\* higher rank, then the smaller path
SortsBefore(a, b, query, ranking_mode) ==
    LET prefixed(q) == StartsWith(to_lowercase(q), to_lowercase(query))
        rank(q) == IF ranking_mode = "Visits" THEN notes[q].direct_access_count
                   ELSE notes[q].frecency_score
    IN \/ prefixed(a) /\ ~prefixed(b)
       \/ /\ prefixed(a) = prefixed(b)
          /\ \/ rank(a) > rank(b)
             \/ rank(a) = rank(b) /\ PathLess(a, b)

\* the result of the last fuzzy_search is the stated one
StatedSearchResult ==
    LET query == last.path
        ranking_mode == last.arg[1]
        found == Containing(notes, query)
        paths == {last.val[i].path : i \in DOMAIN last.val}
    IN /\ last.res = "Ok"
       /\ paths \subseteq found
       /\ Len(last.val) = (IF last.arg[2] = "None" THEN Cardinality(found)
                           ELSE Min({1, Cardinality(found)}))
       /\ \A i, j \in DOMAIN last.val :
             i < j => SortsBefore(last.val[i].path, last.val[j].path, query, ranking_mode)
       /\ \A q \in found \ paths : \A i \in DOMAIN last.val :
             SortsBefore(last.val[i].path, q, query, ranking_mode)
       /\ \A i \in DOMAIN last.val : last.val[i] = Metadata(st, last.val[i].path)

\* C28: for a non-empty query, fuzzy_search returns exactly the rows with
\* archived = 0 whose path holds the query, whatever the case; paths that
\* start with the query come before paths that only hold it, then the higher
\* value of the mode's ranking column, then the smaller path; a limit
\* truncates the list.
C28_FuzzySearchResult ==
    (last.op = "fuzzy_search" /\ last.path # <<>>) => StatedSearchResult

\* the same for a query without the characters % and _
C28_PlainQueryResult ==
    (/\ last.op = "fuzzy_search" /\ last.path # <<>>
     /\ \A i \in DOMAIN last.path : last.path[i] \notin {"%", "_"})
        => StatedSearchResult

\* a note that only holds the query has the higher rank and still comes
\* after the note that starts with it
C28_Witness ==
    /\ last.op = "fuzzy_search" /\ last.arg = <<"Visits", "None">>
    /\ Len(last.val) = 2
    /\ StartsWith(to_lowercase(last.val[1].path), to_lowercase(last.path))
    /\ ~StartsWith(to_lowercase(last.val[2].path), to_lowercase(last.path))
    /\ notes[last.val[1].path].direct_access_count
          < notes[last.val[2].path].direct_access_count

\* C29: a % or _ in the query of fuzzy_search stands for itself: the paths
\* returned for such a query are exactly the paths of the rows with
\* archived = 0 that hold the query as a substring, whatever the case, and
\* no path without the character is returned.
C29_WildcardsLiteral ==
    (/\ last.op = "fuzzy_search" /\ last.arg[2] = "None"
     /\ \E i \in DOMAIN last.path : last.path[i] \in {"%", "_"})
        => /\ last.res = "Ok"
           /\ {last.val[i].path : i \in DOMAIN last.val} = Containing(notes, last.path)

\* the half of C29 that the pattern does keep: nothing is returned that
\* lacks the query
C29_NothingWithoutTheQuery ==
    (/\ last.op = "fuzzy_search" /\ last.path # <<>>)
        => {last.val[i].path : i \in DOMAIN last.val} \subseteq Containing(notes, last.path)

-----------------------------------------------------------------------------
(* A session on an empty root: create a note, create a child of it, save the
   child, read the child three times; the clock may advance between calls *)

ScriptLength == 6
MaxClock == 3

\* SystemTime::now() advances
Tick ==
    /\ clock < MaxClock
    /\ clock' = clock + 1
    /\ UNCHANGED <<storeVars, flag, steps, last, pre, snap, threadVars, schema>>

ScriptCreateParent ==
    /\ steps = 0
    /\ RanWithin(ScriptLength, "create_note", pa, ROOT, "", create_note(st, pa, clock))
    /\ UNCHANGED snap

ScriptCreateChild ==
    /\ steps = 1
    /\ RanWithin(ScriptLength, "create_note", pab, ROOT, "", create_note(st, pab, clock))
    /\ UNCHANGED snap

ScriptSave(content) ==
    /\ steps = 2
    /\ RanWithin(ScriptLength, "save_note", pab, ROOT, content,
                 save_note(st, pab, content, clock))
    /\ UNCHANGED snap

ScriptGet ==
    /\ steps \in 3..5
    /\ RanWithin(ScriptLength, "get_note", pab, ROOT, "", get_note(st, pab, clock))
    /\ UNCHANGED snap

NextScript ==
    \/ Tick
    \/ ScriptCreateParent
    \/ ScriptCreateChild
    \/ \E c \in Contents : ScriptSave(c)
    \/ ScriptGet

SpecScript == InitEmpty /\ [][NextScript]_vars

\* the six calls returned Ok and the third get_note is the last of them
ScriptDone ==
    /\ steps = ScriptLength
    /\ last.op = "get_note" /\ last.res = "Ok"
    /\ DOMAIN notes = {pa, pab}

\* C30: after create_note(P), create_note(P/r), save_note(P/r, c) and three
\* calls of get_note(P/r), access_count is 3 on P/r and on P, and
\* direct_access_count is 3 on P/r and 0 on P.
C30_ThreeReadsCounted ==
    ScriptDone =>
        /\ notes[pab].access_count = 3
        /\ notes[pa].access_count = 3
        /\ notes[pab].direct_access_count = 3
        /\ notes[pa].direct_access_count = 0

\* C30 as the code has it: after the six calls access_count is 4 on P/r and
\* on P, direct_access_count is 4 on P/r and 0 on P; save_note is counted as
\* an access as well as the three get_note.
C30_SaveCountedToo ==
    ScriptDone =>
        /\ notes[pab].access_count = 4
        /\ notes[pa].access_count = 4
        /\ notes[pab].direct_access_count = 4
        /\ notes[pa].direct_access_count = 0

\* each get_note of the session adds one to the three counters
C30_EachReadAddsOne ==
    (steps \in 4..ScriptLength /\ last.op = "get_note" /\ last.res = "Ok") =>
        /\ notes[pab].access_count = pre.notes[pab].access_count + 1
        /\ notes[pa].access_count = pre.notes[pa].access_count + 1
        /\ notes[pab].direct_access_count = pre.notes[pab].direct_access_count + 1
        /\ notes[pa].direct_access_count = pre.notes[pa].direct_access_count

\* the session ended with the saved content read back
C30_Witness ==
    /\ ScriptDone
    /\ pre.notes[pab].direct_access_count = 3
    /\ notes[pab].direct_access_count = 4
    /\ read_note(st, pab) = "v"

----------------------------------------------------------------------------
(* Which operations record an access *)

\* the counts of the row at path before the last operation, 0 without a row
CountsBefore(path) ==
    IF note_exists(pre, path)
    THEN <<pre.notes[path].access_count, pre.notes[path].direct_access_count>>
    ELSE <<0, 0>>

\* C31: each get_note(p) and each save_note(p, c) that returns Ok raises
\* access_count and direct_access_count of p by exactly one and sets
\* last_accessed_at; create_note records no access, the new row has both
\* counts 0; a get_note that fails records no access.
C31_AccessRecordedByReadAndSave ==
    /\ (last.op \in {"get_note", "save_note"} /\ last.res = "Ok") =>
          /\ note_exists(st, last.path)
          /\ notes[last.path].access_count = CountsBefore(last.path)[1] + 1
          /\ notes[last.path].direct_access_count = CountsBefore(last.path)[2] + 1
          /\ notes[last.path].last_accessed_at = clock
    /\ (last.op = "create_note" /\ last.res = "Ok") =>
          /\ note_exists(st, last.path)
          /\ notes[last.path].access_count = 0
          /\ notes[last.path].direct_access_count = 0
          /\ notes[last.path].last_accessed_at = NullInt
          /\ \A q \in DOMAIN pre.notes : notes[q] = pre.notes[q]
    /\ (last.op = "get_note" /\ last.res # "Ok") => st = pre

\* a save_note raised the counts of a note that had been read before
C31_Witness ==
    /\ last.op = "save_note" /\ last.res = "Ok"
    /\ note_exists(pre, last.path)
    /\ pre.notes[last.path].direct_access_count = 1
    /\ notes[last.path].direct_access_count = 2

\* create_note returned a note whose row has no access
C31_WitnessCreate ==
    /\ last.op = "create_note" /\ last.res = "Ok"
    /\ notes[last.path].access_count = 0

----------------------------------------------------------------------------
(* Opening the database file: NotesApi::new on a .notes.db left by earlier *)
(* runs, by runs that were killed, and by programs that dropped a table    *)

MaxOpens == 3

Tables == {"notes", "notes_fts"}

\* NotesApi::new ran its database part with the given budget of statements
Opened(op, budget, killed) ==
    /\ steps < MaxOpens
    /\ steps' = steps + 1
    /\ \E r \in {OpenDatabase(schema, budget)} :
          /\ (r.res = "Killed") = killed
          /\ schema' = r.db
          /\ last' = [op |-> op, path |-> ROOT, arg |-> ROOT, content |-> "",
                      res |-> r.res, val |-> r.applied]

Open ==
    /\ Opened("open", Unlimited, FALSE)
    /\ UNCHANGED <<storeVars, flag, clock, pre, snap, threadVars>>

\* the process is killed after n statements of run_migrations
OpenKilled(n) ==
    /\ Opened("open_killed", n, TRUE)
    /\ UNCHANGED <<storeVars, flag, clock, pre, snap, threadVars>>

\* another program drops a table; the indexes and columns of notes go with it
DropTable(name) ==
    /\ steps < MaxOpens
    /\ steps' = steps + 1
    /\ name \in schema.objects
    /\ schema' = IF name = "notes"
                 THEN [schema EXCEPT !.objects = @ \cap {"notes_fts"}, !.columns = {}]
                 ELSE [schema EXCEPT !.objects = @ \ {name}]
    /\ last' = [op |-> "drop_table", path |-> ROOT, arg |-> ROOT, content |-> "",
                res |-> "Ok", val |-> <<>>]
    /\ UNCHANGED <<storeVars, flag, clock, pre, snap, threadVars>>

InitOpen == InitWith({{}}, NewDatabase)

NextOpen ==
    \/ Open
    \/ \E n \in 0..(Unlimited - 2) : OpenKilled(n)
    \/ \E t \in Tables : DropTable(t)

SpecOpen == InitOpen /\ [][NextOpen]_vars

\* the versions above v in increasing order
VersionsAbove(v) == [i \in 1..(3 - v) |-> v + i]

\* C32: opening a store whose stored version is 0, 1, 2 or 3 applies the
\* migrations above that version in increasing order and no other, never
\* lowers the version, and succeeds only with version 3 and both the table
\* notes and the full-text table present; when a table is missing after the
\* migrations ran, opening fails with DatabaseCorrupted.
C32_MigrationsMonotonic ==
    [][(steps' # steps /\ last'.op \in {"open", "open_killed"}) =>
          /\ schema.version \in 0..3
          /\ schema'.version >= schema.version
          /\ Len(last'.val) <= Len(VersionsAbove(schema.version))
          /\ last'.val = SubSeq(VersionsAbove(schema.version), 1, Len(last'.val))
          /\ schema'.version = Max({schema.version} \cup {last'.val[i] : i \in DOMAIN last'.val})
          /\ last'.res = "Ok" =>
                /\ last'.val = VersionsAbove(schema.version)
                /\ schema'.version = 3
                /\ Tables \subseteq schema'.objects
          /\ (last'.val = VersionsAbove(schema.version) /\ last'.res # "Killed"
                /\ ~(Tables \subseteq schema'.objects)) =>
                last'.res = "DatabaseCorrupted"]_vars

\* an open applied migrations and then found the full-text table missing
C32_Witness ==
    /\ last.op = "open"
    /\ last.res = "DatabaseCorrupted"
    /\ Len(last.val) >= 1
    /\ schema.version = 3
    /\ "notes" \in schema.objects

\* an open of a store at version 1 applied the migrations 2 and 3
C32_WitnessUpgrade ==
    /\ last.op = "open" /\ last.res = "Ok" /\ last.val = <<2, 3>> /\ steps >= 2

----------------------------------------------------------------------------
(* The kind of the errors the API returns *)

\* C33: an error of the filesystem layer reaches the caller with its kind:
\* trash_note that fails on a note whose directory exists, which is a
\* failure of the trash backend and not a missing note, returns Io and not
\* NotFound.
C33_ErrorsKeepTheirKind ==
    (/\ last.op = "trash_note"
     /\ last.res # "Ok"
     /\ fs_delete_ok(pre, last.path))
        => last.res = "Io"

\* the half that holds: a trash_note or delete_note on a path without a
\* directory returns NotFound and changes nothing
C33_MissingNoteIsNotFound ==
    (/\ last.op \in {"trash_note", "delete_note"}
     /\ ~fs_delete_ok(pre, last.path))
        => (last.res = "NotFound" /\ st = pre)

----------------------------------------------------------------------------
(* Paths with a reserved segment given to the API *)

ATTACHMENTS == <<"_", "a", "t", "t", "a", "c", "h", "m", "e", "n", "t", "s">>

ReservedNames == {ATTACHMENTS, BACKUPS, ARCHIVE}

ReservedPaths == {ATTACHMENTS, BACKUPS, ARCHIVE, pa \o SLASH \o ATTACHMENTS}

NextReserved ==
    \/ \E p \in {pa} \cup ReservedPaths : CreateNote(p)
    \/ \E p \in {pa} \cup ReservedPaths : SaveNote(p, "v")
    \/ \E p \in ReservedPaths : RenameNote(pa, p)
    \/ ArchiveNote(pa)

InitReserved == InitOn({{}, {pa}})

SpecReserved == InitReserved /\ [][NextReserved]_vars

HasSegment(path, names) ==
    \E i \in 1..Len(Components(path)) : Components(path)[i] \in names

\* C34: create_note, save_note and rename_note produce no row and no note on
\* disk whose path has a segment _attachments, _backups or _archive; a row
\* with a segment _archive is the result of archive_note, so it has
\* archived = 1.
C34_NoReservedSegments ==
    /\ \A q \in DOMAIN notes :
          /\ ~HasSegment(q, {ATTACHMENTS, BACKUPS})
          /\ HasSegment(q, {ARCHIVE}) => notes[q].archived = 1
    /\ \A k \in DOMAIN files :
          /\ ~HasSegment(k, {ATTACHMENTS, BACKUPS})
          /\ HasSegment(k, {ARCHIVE}) => (k \in DOMAIN notes /\ notes[k].archived = 1)

----------------------------------------------------------------------------
(* What the index alone knows: the id and the frecency fields of a row *)

Kept(row) ==
    <<row.id, row.access_count, row.direct_access_count, row.last_accessed_at,
      row.frecency_score>>

\* the row of before is still in the index, at some path, with its id and
\* its frecency fields
Survives(q) == \E n \in DOMAIN notes : Kept(notes[n]) = Kept(pre.notes[q])

\* C35: sync_note, rescan for the rows whose note is still on disk, and
\* rename_note, archive_note and unarchive_note for the moved row and its
\* descendants leave id, access_count, direct_access_count, last_accessed_at
\* and frecency_score as they were; only get_note and save_note, which
\* record an access, change the frecency fields of a row.
C35_IndexKeepsIdAndFrecency ==
    /\ last.op \notin {"init", "get_note", "save_note"} =>
          \A q \in DOMAIN pre.notes, n \in DOMAIN notes :
              notes[n].id = pre.notes[q].id => Kept(notes[n]) = Kept(pre.notes[q])
    /\ last.op = "sync_note" =>
          \A q \in DOMAIN pre.notes :
              q \in DOMAIN notes /\ Kept(notes[q]) = Kept(pre.notes[q])
    /\ (last.op = "rescan" /\ last.res = "Ok") =>
          \A q \in DOMAIN pre.notes \cap scan_all(pre) :
              q \in DOMAIN notes /\ Kept(notes[q]) = Kept(pre.notes[q])
    /\ (last.op \in {"rename_note", "archive_note", "unarchive_note"}
            /\ last.res = "Ok") =>
          \A q \in RowsAtOrUnder(pre.notes, last.path) : Survives(q)

\* a note that had been read was renamed and its row kept the counts
C35_Witness ==
    /\ last.op = "rename_note" /\ last.res = "Ok"
    /\ note_exists(pre, last.path)
    /\ pre.notes[last.path].access_count >= 1
    /\ note_exists(st, last.arg)
    /\ Kept(notes[last.arg]) = Kept(pre.notes[last.path])

-----------------------------------------------------------------------------
(* Saving and syncing while the clock of the file system advances *)

ClockPaths == {pa, pab}

NextClock ==
    \/ Tick
    \/ \E p \in ClockPaths, c \in Contents : SaveNote(p, c)
    \/ \E p \in ClockPaths : SyncNote(p)
    \/ \E p \in ClockPaths, c \in Contents : ExtWrite(p, c)

InitClock == InitOn({{pa}})

SpecClock == InitClock /\ [][NextClock]_vars

\* C36: after save_note(p, c) or sync_note(p) returned Ok, the mtime of the
\* row of p is the modification time of p's _index.md, also when the file
\* was written again with the content the row was last synced with.
C36_RowHasMtimeOfFile ==
    (/\ last.op \in {"save_note", "sync_note"}
     /\ last.res = "Ok")
        => /\ note_exists(st, last.path)
           /\ notes[last.path].mtime = files[FsKey(last.path)].mtime

\* where the content differs from the synced content the row does take the
\* modification time of the file
C36_ChangedContentTakesMtime ==
    (/\ last.op \in {"save_note", "sync_note"}
     /\ last.res = "Ok"
     /\ note_exists(pre, last.path)
     /\ pre.notes[last.path].content_hash
           # compute_hash(files[FsKey(last.path)].content))
        => notes[last.path].mtime = files[FsKey(last.path)].mtime

-----------------------------------------------------------------------------
(* The suppression flag and the mutex *)

\* C37: the watcher reads the suppression flag only while it holds the
\* mutex of the API, and a guarded operation sets and clears the flag within
\* one call made under the mutex; with every caller going through the mutex
\* the watcher therefore reads false each time and never takes the branch
\* that skips the event.
C37_WatcherReadsFlagClear ==
    /\ wpc = "flag" => mutex = "watcher"
    /\ flag => (mutex = "caller" /\ cop.op \in GuardedOps
                   /\ cpc \in {"fs", "index", "callback", "drop"})
    /\ wpc = "flag" => ~flag
    /\ wlog # NoOp => ~wlog.skipped

\* the watcher is about to read the flag for an event that a guarded
\* save_note raised, after that save_note has set and cleared the flag
C37_Witness ==
    /\ wpc = "flag"
    /\ mutex = "watcher"
    /\ wev.src = "api" /\ wev.op = "save_note"
    /\ ~flag
    /\ cpc = "idle" /\ steps >= 1

\* the watcher went on to sync_note for an event of the API's own write
C37_WitnessSynced ==
    /\ wlog # NoOp
    /\ wlog.src = "api"
    /\ ~wlog.skipped

-----------------------------------------------------------------------------
(* Deleting notes whose paths meet the LIKE pattern of other notes *)

paxbc == <<"a", "x", "b", "/", "c">>
DeleteTrees == {{pa, pab, pA, pAb}, {pa_b, paxb, paxbc}, {pa, pab, pb}}
DeletePaths == {ROOT, pa, pab, pA, pAb, pb, pa_b, paxb, paxbc}

NextDelete ==
    \/ \E p \in DeletePaths : DeleteNote(p)
    \/ \E p \in DeletePaths \ {ROOT}, c \in Contents : SaveNote(p, c)

InitDelete == InitOn(DeleteTrees)

SpecDelete == InitDelete /\ [][NextDelete]_vars

\* the index rows are the notes on disk
IndexAgrees(s) == DOMAIN s.notes = scan_all(s)

\* delete_note(last.path) returned Ok
DeleteSucceeded == last.op = "delete_note" /\ last.res = "Ok"

\* C38: delete_note(p) removes only p and the notes under p/: every row and
\* every note on disk whose path is neither p nor begins with p/ is as it
\* was, and a store whose index and disk agreed before a successful
\* delete_note agrees after it; p may be the root path, may hold _ or %, and
\* may differ from another note by the case of its letters only.
C38_DeleteRemovesOnlySubtree ==
    DeleteSucceeded =>
        /\ \A q \in DOMAIN pre.notes :
              ~AtOrBelow(q, last.path) =>
                  (q \in DOMAIN notes /\ notes[q] = pre.notes[q])
        /\ \A k \in DOMAIN pre.files :
              ~AtOrBelow(k, last.path) =>
                  (k \in DOMAIN files /\ files[k] = pre.files[k])
        /\ IndexAgrees(pre) => IndexAgrees(st)

\* the same for paths other than the root
C38_BelowTheRoot ==
    (DeleteSucceeded /\ last.path # ROOT) =>
        /\ \A q \in DOMAIN pre.notes :
              ~AtOrBelow(q, last.path) =>
                  (q \in DOMAIN notes /\ notes[q] = pre.notes[q])
        /\ IndexAgrees(pre) => IndexAgrees(st)

\* the same for paths without _ and %, other than the root
C38_PlainPath ==
    (/\ DeleteSucceeded /\ last.path # ROOT
     /\ \A i \in DOMAIN last.path : last.path[i] \notin {"_", "%"}) =>
        /\ \A q \in DOMAIN pre.notes :
              ~AtOrBelow(q, last.path) =>
                  (q \in DOMAIN notes /\ notes[q] = pre.notes[q])
        /\ IndexAgrees(pre) => IndexAgrees(st)

\* the notes on disk outside p and p/ are kept for every p but the root
C38_DiskOutsideKept ==
    (DeleteSucceeded /\ last.path # ROOT) =>
        \A k \in DOMAIN pre.files :
            ~AtOrBelow(k, last.path) =>
                (k \in DOMAIN files /\ files[k] = pre.files[k])

-----------------------------------------------------------------------------
(* Moving a note to a path where another note is *)

OccupiedTrees == {{pa, pab}, {pa, pA}, {pa, pab, pb}}

NextOccupied ==
    \/ \E p \in {pab, pA, pb}, c \in Contents : SaveNote(p, c)
    \/ \E p \in {pa, pab} : ArchiveNote(p)
    \/ \E p \in {ArchivePath(pab)} : UnarchiveNote(p)
    \/ \E old_path \in {pa, pab}, new_path \in {pA, pb, pab} :
          RenameNote(old_path, new_path)

InitOccupied == InitOn(OccupiedTrees)

SpecOccupied == InitOccupied /\ [][NextOccupied]_vars

\* the last call was to move last.path to last.arg, where another note was,
\* in the index or on disk
DestinationOccupied ==
    /\ last.op \in {"rename_note", "archive_note", "unarchive_note"}
    /\ last.arg # last.path
    /\ (note_exists(pre, last.path) \/ fs_exists(pre, last.path))
    /\ (note_exists(pre, last.arg) \/ fs_exists(pre, last.arg))

\* the row and the file of path q are as they were before the last call
Untouched(q) ==
    /\ note_exists(st, q) = note_exists(pre, q)
    /\ note_exists(pre, q) => notes[q] = pre.notes[q]
    /\ fs_exists(st, q) = fs_exists(pre, q)
    /\ fs_exists(pre, q) => read_note(st, q) = read_note(pre, q)

\* C39: rename_note, archive_note and unarchive_note do not overwrite or
\* destroy another note: when another note is at the destination (for a
\* rename also a destination that differs by case on a case-sensitive file
\* system; for archive and unarchive an earlier note at the archive or the
\* restore path) the call fails and the content and the rows of both notes
\* are as before.
C39_OccupiedDestinationKept ==
    DestinationOccupied =>
        /\ last.res # "Ok"
        /\ Untouched(last.path)
        /\ Untouched(last.arg)

\* the same for a rename whose destination is not the old path in another
\* case and has a row
C39_RenameToIndexedNote ==
    (/\ DestinationOccupied
     /\ last.op = "rename_note"
     /\ to_lowercase(last.path) # to_lowercase(last.arg)
     /\ note_exists(pre, last.arg)) =>
        /\ last.res = "AlreadyExists"
        /\ st = pre

C39_Rename == last.op = "rename_note" => C39_OccupiedDestinationKept
C39_Archive == last.op = "archive_note" => C39_OccupiedDestinationKept
C39_Unarchive == last.op = "unarchive_note" => C39_OccupiedDestinationKept

-----------------------------------------------------------------------------
(* Renaming a note that holds more than the index knows *)

\* the _attachments directory of a note
AttachmentsDir(path) == FsKey(path) \o SLASH \o ATTACHMENTS

\* the download_image command: create_dir_all(<note>/_attachments) and a
\* write of the image into it; the directory stands for the image it holds
DownloadImage(note_path) ==
    /\ Ran("download_image", note_path, ROOT, "",
           Ok([st EXCEPT !.dirs = @ \cup DirPrefixes(AttachmentsDir(note_path))]))
    /\ UNCHANGED snap

KeepTrees == {{pa}, {pa, pab}}

NextKeep ==
    \/ \E p \in {pab, pabc}, c \in Contents : ExtWrite(p, c)
    \/ \E p \in {pa, pab} : DownloadImage(p)
    \/ \E old_path \in {pa, pab}, new_path \in {pb} : RenameNote(old_path, new_path)
    \/ \E p \in {pa, pab} : SyncNote(p)

InitKeep == InitOn(KeepTrees)

SpecKeep == InitKeep /\ [][NextKeep]_vars

RenameSucceeded == last.op = "rename_note" /\ last.res = "Ok"

\* the images kept in _attachments directories at or below path
AttachmentsUnder(s, path) ==
    {d \in s.dirs : AtOrBelow(d, path) /\ LastSegment(d) = ATTACHMENTS}

\* C40: a successful rename_note(old, new) keeps what is stored under old:
\* the notes on disk at or below old, indexed or not, and the files in the
\* _attachments directories of old and its descendants are below new after
\* the call.
C40_RenameKeepsEverything ==
    RenameSucceeded =>
        /\ \A k \in DOMAIN pre.files :
              AtOrBelow(k, last.path) =>
                  LET n == Rebased(k, last.path, last.arg)
                  IN fs_exists(st, n) /\ read_note(st, n) = read_note(pre, k)
        /\ \A d \in AttachmentsUnder(pre, last.path) :
              Rebased(d, last.path, last.arg) \in dirs

\* the notes under old that are on disk without a row
C40_UnindexedNotesKept ==
    RenameSucceeded =>
        \A k \in DOMAIN pre.files :
            (AtOrBelow(k, last.path) /\ ~note_exists(pre, k)) =>
                fs_exists(st, Rebased(k, last.path, last.arg))

\* the attachments of old and its descendants
C40_AttachmentsKept ==
    RenameSucceeded =>
        \A d \in AttachmentsUnder(pre, last.path) :
            Rebased(d, last.path, last.arg) \in dirs

\* the notes under old that have a row are below new with their content
C40_IndexedNotesKept ==
    RenameSucceeded =>
        \A k \in DOMAIN pre.files :
            (AtOrBelow(k, last.path) /\ note_exists(pre, k)) =>
                LET n == Rebased(k, last.path, last.arg)
                IN fs_exists(st, n) /\ read_note(st, n) = read_note(pre, k)
====
